---- MODULE Spec2Model ----
(***************************************************************************)
(* Warren fractal-tree content loader (src/loader/loader.js and the video  *)
(* variant src/loader/video-loader.js): tree discovery, batched fetch with *)
(* Multicall3 and individual fallback, retry rounds, assembly.             *)
(*                                                                         *)
(* Every remote request is one action whose outcome (success / transport   *)
(* failure / per-slot result) is chosen by the environment.                *)
(***************************************************************************)
EXTENDS Integers, Sequences, FiniteSets, TLC

(***************************************************************************)
(* Bounds of the model                                                     *)
(***************************************************************************)
\* BATCH_SIZE ranges over 1..MaxBatch
MaxBatch == 2
\* segmented media drawn for the extraction check: up to MaxSegs segments
\* over MaxData bytes of media data
MaxSegs == 2
MaxData == 4
\* attempt budgets 1..MaxAttempts of a single-address read
MaxAttempts == 6
\* groups of a batch loop whose index runs below 0
MaxLoops == 2
\* SITE_VISITED messages handled in one run
MaxVisits == 4
\* chunks handed to deployChunks, addresses handed to buildTree
MaxChunks == 5

(***************************************************************************)
(* Program constants                                                       *)
(***************************************************************************)
\* width of one child address in a branch payload, in bytes
ADDR_LEN == 20
\* attempts of fetchChunkData during discovery and in a retry round
ScanRetries == 3
\* the default of the `retries` parameter of fetchChunksBatch
DefaultRetries == 3
\* the `retries` argument loadChunksInBatches passes to fetchChunksBatch
BatchRetries == 2
\* retry rounds of retryFailedChunks
MaxRetryRounds == 5

(***************************************************************************)
(* Bytes, hex strings and addresses                                        *)
(***************************************************************************)
\* viem toHex of a byte array: two hex digits per byte (the "0x" prefix is
\* left out); an address is the hex string of 20 bytes
toHex(bytes) ==
    [n \in 1..(2 * Len(bytes)) |->
        IF n % 2 = 1 THEN bytes[(n + 1) \div 2] \div 16
                     ELSE bytes[n \div 2] % 16]

\* Array.prototype.slice(from, to) (also of Uint8Array) with 0-based,
\* end-exclusive bounds clamped to the array; a negative bound counts from
\* the end
slice(arr, from, to) ==
    LET len == Len(arr)
        rel(b) == IF b < 0 THEN (IF len + b < 0 THEN 0 ELSE len + b)
                  ELSE IF b > len THEN len ELSE b
    IN  IF rel(from) >= rel(to) THEN << >>
        ELSE SubSeq(arr, rel(from) + 1, rel(to))

\* the 20 bytes of the address numbered id
AddrBytes(id) == [n \in 1..ADDR_LEN |-> IF n = ADDR_LEN THEN id ELSE 0]

Addr(id) == toHex(AddrBytes(id))

RECURSIVE Concat(_)
Concat(seqs) ==
    IF seqs = << >> THEN << >> ELSE Head(seqs) \o Concat(Tail(seqs))

\* payload of a branch node: the child addresses packed 20 bytes each
Packed(ids) == Concat([n \in 1..Len(ids) |-> AddrBytes(ids[n])])

(***************************************************************************)
(* Published trees: content split into chunks (leaf payloads), leaves      *)
(* grouped into branch nodes, one root; (rootChunk, depth) is what the     *)
(* registry hands to the loader.  leafIds is the order in which the        *)
(* publisher laid the chunks out (left to right), content their bytes,     *)
(* totalSize the size the registry entry declares (a value the publisher   *)
(* supplies; it need not be the length of the content).                    *)
(***************************************************************************)
\* 13 content bytes in chunks of 3: leaf sizes 3,3,3,3,1 (the 15000/7000
\* byte leaves of the README example scaled by 1/5000 and rounded)
Content5 == [n \in 1..13 |-> n]

ChunkOf(content, size, c) == slice(content, c * size, (c + 1) * size)

\* depth 0: the single chunk is the root
Tree0 ==
    [rootChunk |-> Addr(1), depth |-> 0, content |-> <<7, 8>>,
     leafIds |-> <<1>>, totalSize |-> 2,
     store |-> (Addr(1) :> <<7, 8>>)]

\* depth 1: one branch node over three leaves; the declared size is one
\* byte short of the content
Tree1 ==
    [rootChunk |-> Addr(9), depth |-> 1, content |-> <<1, 2, 3, 4, 5>>,
     leafIds |-> <<1, 2, 3>>, totalSize |-> 4,
     store |-> (Addr(1) :> <<1, 2>>) @@ (Addr(2) :> <<3, 4>>)
               @@ (Addr(3) :> <<5>>)
               @@ (Addr(9) :> Packed(<<1, 2, 3>>))]

\* depth 2: the README example, leaves [0,1,2] under node A, [3,4] under B
Tree2 ==
    [rootChunk |-> Addr(8), depth |-> 2, content |-> Content5,
     leafIds |-> <<1, 2, 3, 4, 5>>, totalSize |-> 13,
     store |-> (Addr(1) :> ChunkOf(Content5, 3, 0))
               @@ (Addr(2) :> ChunkOf(Content5, 3, 1))
               @@ (Addr(3) :> ChunkOf(Content5, 3, 2))
               @@ (Addr(4) :> ChunkOf(Content5, 3, 3))
               @@ (Addr(5) :> ChunkOf(Content5, 3, 4))
               @@ (Addr(6) :> Packed(<<1, 2, 3>>))
               @@ (Addr(7) :> Packed(<<4, 5>>))
               @@ (Addr(8) :> Packed(<<6, 7>>))]

\* depth 3 with a one-child chain on the left and an empty chunk; the
\* declared size is larger than the content
Tree3 ==
    [rootChunk |-> Addr(9), depth |-> 3, content |-> <<4, 5, 6>>,
     leafIds |-> <<1, 2, 3>>, totalSize |-> 5,
     store |-> (Addr(1) :> <<4>>) @@ (Addr(2) :> << >>)
               @@ (Addr(3) :> <<5, 6>>)
               @@ (Addr(5) :> Packed(<<1>>))
               @@ (Addr(6) :> Packed(<<2, 3>>))
               @@ (Addr(7) :> Packed(<<5>>))
               @@ (Addr(8) :> Packed(<<6>>))
               @@ (Addr(9) :> Packed(<<7, 8>>))]

Trees == {Tree0, Tree1, Tree2, Tree3}

\* depth 1 with a root payload of 25 bytes: the address of the one leaf and
\* five bytes more
TreeRagged ==
    [rootChunk |-> Addr(9), depth |-> 1, content |-> <<7, 8>>,
     leafIds |-> <<1>>, totalSize |-> 2,
     store |-> (Addr(1) :> <<7, 8>>)
               @@ (Addr(9) :> Packed(<<1>>) \o <<0, 0, 0, 0, 2>>)]

\* the trees discovery alone is pointed at
ScanTrees == Trees \cup {TreeRagged}

(***************************************************************************)
(* Segmented media: [4-byte big-endian header length][header][segments].   *)
(* The header lists the segments as byte ranges relative to the end of the *)
(* header, as a JSON array in the source, here as the bytes                *)
(* byteStart, byteEnd of each segment in turn.                             *)
(***************************************************************************)
\* config.chunkSize of the video loader (15000 by default), scaled
CHUNK_SIZE == 4

\* three segments: [0,3), [3,5), [5,8)
MediaHeader == <<0, 3, 3, 5, 5, 8>>
MediaData == <<21, 22, 23, 24, 25, 26, 27, 28>>
MediaContent == <<0, 0, 0, Len(MediaHeader)>> \o MediaHeader \o MediaData

\* depth 1: a content in leaves of CHUNK_SIZE bytes
MediaTree(content) ==
    LET n == (Len(content) + CHUNK_SIZE - 1) \div CHUNK_SIZE IN
    [rootChunk |-> Addr(9), depth |-> 1, content |-> content,
     leafIds |-> [c \in 1..n |-> c], totalSize |-> Len(content),
     store |-> [a \in {Addr(c) : c \in 1..n} \cup {Addr(9)} |->
                  IF a = Addr(9) THEN Packed([c \in 1..n |-> c])
                  ELSE ChunkOf(content, CHUNK_SIZE,
                               (CHOOSE c \in 1..n : Addr(c) = a) - 1)]]

TreeV == MediaTree(MediaContent)

\* a header that is not JSON (here: a header of odd length)
TreeMalformed == MediaTree(<<0, 0, 0, 1, 7, 21, 22, 23>>)

\* a declared header length (256) far beyond the content
TreeOversized == MediaTree(<<0, 0, 1, 0, 0, 2, 21, 22>>)

\* a header that is JSON but not a list: the text "{}"
TreeObject == MediaTree(<<0, 0, 0, 2, 123, 125, 21, 22, 23>>)

\* the trees the video loader is pointed at
VideoTrees == {Tree0, Tree1, Tree3, TreeV, TreeMalformed, TreeOversized,
               TreeObject}

\* DataView.getUint32(0) of the first four bytes
getUint32(b) == ((b[1] * 256 + b[2]) * 256 + b[3]) * 256 + b[4]

\* JSON.parse of the header text: a parse error (ok = FALSE), a value
\* that is not a list (array = FALSE; the text "{}"), or the segment list
JSONparse(bytes) ==
    IF bytes = <<123, 125>>
    THEN [ok |-> TRUE, array |-> FALSE, segments |-> << >>]
    ELSE IF Len(bytes) % 2 = 0
    THEN [ok |-> TRUE, array |-> TRUE,
          segments |-> [n \in 1..(Len(bytes) \div 2) |->
                           [byteStart |-> bytes[2 * n - 1],
                            byteEnd |-> bytes[2 * n]]]]
    ELSE [ok |-> FALSE, array |-> FALSE, segments |-> << >>]

ceilDiv(a, b) == (a + b - 1) \div b

\* parseHeaderFromChunks: read is FALSE while chunk 0 is missing or shorter
\* than 4 bytes; otherwise headerLength is assigned, and the result is null
\* (ok = FALSE) while a chunk of the header is missing or when the JSON
\* does not parse; whatever JSON.parse returns is returned as it is
parseHeaderFromChunks(map) ==
    IF 0 \notin DOMAIN map \/ Len(map[0]) < 4
    THEN [read |-> FALSE, headerLength |-> 0, ok |-> FALSE,
          array |-> FALSE, segments |-> << >>]
    ELSE LET hl == getUint32(map[0])
             chunksNeeded == ceilDiv(4 + hl, CHUNK_SIZE)
         IN  IF \E c \in 0..(chunksNeeded - 1) : c \notin DOMAIN map
             THEN [read |-> TRUE, headerLength |-> hl, ok |-> FALSE,
                   array |-> FALSE, segments |-> << >>]
             ELSE LET all == Concat([c \in 1..chunksNeeded |-> map[c - 1]])
                      got == slice(all, 4, 4 + hl)
                      headerBytes ==
                          got \o [z \in 1..(hl - Len(got)) |-> 0]
                      parsed == JSONparse(headerBytes)
                  IN  [read |-> TRUE, headerLength |-> hl,
                       ok |-> parsed.ok, array |-> parsed.array,
                       segments |-> parsed.segments]

adjustSegmentOffsets(segments, hl) ==
    [n \in DOMAIN segments |->
        [byteStart |-> segments[n].byteStart,
         byteEnd |-> segments[n].byteEnd,
         adjustedByteStart |-> segments[n].byteStart + 4 + hl,
         adjustedByteEnd |-> segments[n].byteEnd + 4 + hl,
         adjustedChunkStart |->
             (segments[n].byteStart + 4 + hl) \div CHUNK_SIZE,
         adjustedChunkEnd |->
             ceilDiv(segments[n].byteEnd + 4 + hl, CHUNK_SIZE)]]

isSegmentComplete(segment, map) ==
    \A c \in segment.adjustedChunkStart..(segment.adjustedChunkEnd - 1) :
        c \in DOMAIN map

\* mutant: the segment is cut from the start of its first chunk
extractSegmentData_fromChunkStart(segment, map, hl) ==
    LET first == segment.adjustedChunkStart
        count == segment.adjustedChunkEnd - first
        assembled == Concat([c \in 1..count |-> map[first + c - 1]])
    IN  slice(assembled, 0, segment.byteEnd - segment.byteStart)

extractSegmentData(segment, map, hl) ==
    LET first == segment.adjustedChunkStart
        count == segment.adjustedChunkEnd - first
        assembled == Concat([c \in 1..count |-> map[first + c - 1]])
        startInData == (segment.byteStart + 4 + hl) - first * CHUNK_SIZE
        segmentLength == segment.byteEnd - segment.byteStart
    IN  slice(assembled, startInData, startInData + segmentLength)

StreamStart ==
    [segmentsParsed |-> FALSE, adjustedSegments |-> << >>,
     nextSegmentToAppend |-> 0, headerLength |-> 0, handed |-> << >>]

SourceBufferStart == [updating |-> FALSE, appended |-> << >>]

MediaSourceStart == [readyState |-> "none"]


(***************************************************************************)
(* Configuration: URL parameters, /api/config, hardcoded fallbacks         *)
(***************************************************************************)
\* the hardcoded fallbacks of the loader scripts
FallbackBatchSize == 100
FallbackChunkSize == 15000

\* URLSearchParams.get: null when the parameter is not given, else its text
NotGiven == [given |-> FALSE, text |-> ""]
Given(text) == [given |-> TRUE, text |-> text]

\* the texts tried for a parameter, with the result of parseInt (nan for
\* NaN)
ParamTexts == {"", "abc", "0", "2", "7", "-5", "9000"}

parseInt(text) ==
    CASE text = "0" -> [nan |-> FALSE, n |-> 0]
      [] text = "1" -> [nan |-> FALSE, n |-> 1]
      [] text = "2" -> [nan |-> FALSE, n |-> 2]
      [] text = "3" -> [nan |-> FALSE, n |-> 3]
      [] text = "500" -> [nan |-> FALSE, n |-> 500]
      [] text = "7" -> [nan |-> FALSE, n |-> 7]
      [] text = "-5" -> [nan |-> FALSE, n |-> 0 - 5]
      [] text = "9000" -> [nan |-> FALSE, n |-> 9000]
      [] OTHER -> [nan |-> TRUE, n |-> 0]

\* parseInt(x) || d: NaN and 0 are falsy
orDefault(r, d) == IF r.nan \/ r.n = 0 THEN d ELSE r.n

\* a string is truthy unless it is null or empty
truthy(param) == param.given /\ param.text # ""

\* configuration not under study: the load starts from resolved settings
Configured ==
    [phase |-> "configured", batchSize |-> NotGiven, chunkSize |-> NotGiven,
     api |-> [answer |-> "ok", batchSize |-> 0, chunkSize |-> 0],
     BATCH_SIZE |-> FallbackBatchSize, CHUNK_SIZE |-> FallbackChunkSize]

\* the page before the loader script runs
PageWith(urlBatchSize, urlChunkSize) ==
    [phase |-> "page", batchSize |-> urlBatchSize,
     chunkSize |-> urlChunkSize,
     api |-> [answer |-> "none", batchSize |-> 0, chunkSize |-> 0],
     BATCH_SIZE |-> 0, CHUNK_SIZE |-> 0]

\* the module-level declarations: BATCH_SIZE from the URL or 100,
\* CHUNK_SIZE the fallback
scriptLoad(st) ==
    [st EXCEPT !.phase = "script",
               !.BATCH_SIZE = orDefault(parseInt(st.batchSize.text),
                                        FallbackBatchSize),
               !.CHUNK_SIZE = FallbackChunkSize]

\* mutant: the /api/config value replaces the URL's batch size
loadConfig_apiFirst(st, answer) ==
    IF answer.answer = "ok"
    THEN [st EXCEPT !.phase = "configured", !.api = answer,
                    !.CHUNK_SIZE = IF answer.chunkSize # 0
                                   THEN answer.chunkSize
                                   ELSE FallbackChunkSize,
                    !.BATCH_SIZE = IF answer.batchSize # 0
                                   THEN answer.batchSize ELSE @]
    ELSE [st EXCEPT !.phase = "configured", !.api = answer]

\* init's fetch of /api/config: only an ok response is read (a value of 0
\* stands for a field the response does not have); a thrown fetch or a
\* response that is not ok leaves the values as they are
loadConfig(st, answer) ==
    IF answer.answer = "ok"
    THEN [st EXCEPT !.phase = "configured", !.api = answer,
                    !.CHUNK_SIZE = IF answer.chunkSize # 0
                                   THEN answer.chunkSize
                                   ELSE FallbackChunkSize,
                    !.BATCH_SIZE = IF ~truthy(st.batchSize)
                                      /\ answer.batchSize # 0
                                   THEN answer.batchSize ELSE @]
    ELSE [st EXCEPT !.phase = "configured", !.api = answer]

\* what /api/config may answer
ApiAnswers ==
    [answer : {"ok"}, batchSize : {0, 50}, chunkSize : {0, 8000}]
        \cup [answer : {"throw", "notok"}, batchSize : {0}, chunkSize : {0}]

(***************************************************************************)
(* Name resolution of the extension: gateway API, then on-chain            *)
(***************************************************************************)
\* name resolution not under study: the site is already resolved
Resolved ==
    [fn |-> "none", phase |-> "returned", apiConfigured |-> TRUE,
     contractConfigured |-> TRUE, nameValid |-> TRUE, api |-> "none",
     ethCalls |-> 0, source |-> "none"]

\* a call of resolve(name) or resolveMega(name) about to run
ResolveCall(fn, apiConfigured, contractConfigured, nameValid) ==
    [fn |-> fn, phase |-> "start", apiConfigured |-> apiConfigured,
     contractConfigured |-> contractConfigured, nameValid |-> nameValid,
     api |-> "none", ethCalls |-> 0, source |-> "none"]

\* what the gateway API attempt can come to: fetch throws, the abort timer
\* fires, a response that is not ok, an ok response whose body cannot be
\* read (res.json() or the field access throws), an ok response without a
\* usable result (resolveMega: parseResolveResult gives null), an ok
\* response with a result
ApiOutcomes(fn) ==
    {"throw", "timeout", "notok", "ok_badbody", "ok_result"}
        \cup (IF fn = "resolveMega" THEN {"ok_noresult"} ELSE {})

\* mutant: whatever the API attempt came to is returned
afterApi_noFallback(fn, outcome) == "returned"

\* the API attempt: only an ok response with a result returns; everything
\* else (the catch, the fall-through) goes on to resolveOnchain
afterApi(fn, outcome) == IF outcome = "ok_result" THEN "returned" ELSE "onchain"

(***************************************************************************)
(* One single-address read with its backoff                                *)
(***************************************************************************)
\* no single read under study
NoRead ==
    [kind |-> "none", retries |-> 0, i |-> 0, status |-> "returned",
     attempts |-> 0, failures |-> 0, waits |-> << >>]

\* a call of fetchChunkData(address, retries) of the loader ("generic") or
\* of readChunk(address, rpcUrl, retries) of the extension
ReadCall(kind, retries) ==
    [kind |-> kind, retries |-> retries, i |-> 0, status |-> "running",
     attempts |-> 0, failures |-> 0, waits |-> << >>]

\* the backoff after the failed attempt i (0-based), in ms:
\* loader.js Math.min(200 * 2^i, 2000), site-loader.js 300 * 2^i
backoff(kind, i) ==
    IF kind = "generic"
    THEN (IF 200 * 2^i > 2000 THEN 2000 ELSE 200 * 2^i)
    ELSE 300 * 2^i

(***************************************************************************)
(* State                                                                   *)
(***************************************************************************)
VARIABLES
    tree,           \* the published tree being loaded (fixed per load)
    BATCH_SIZE,     \* loader.js:12
    USE_MULTICALL,  \* loader.js:13
    pc,             \* position of the load's control flow
    scan,           \* collectLeafAddresses: todo, leaves, currentIndex, i
    leaves,         \* fetchTreeSequential: the discovered leaf list
    i,              \* loadChunksInBatches: loop variable (0-based offset)
    batch,          \* loadChunksInBatches: the current group of leaves
    j,              \* fetchChunksBatch: aggregate attempt (loop variable i)
    k,              \* position in the group / in toRetry (1-based)
    att,            \* fetchChunkData: attempt (loop variable i)
    results,        \* result list of fetchChunksBatch for the group
    chunks,         \* success collection [{index, data}]
    failed,         \* failed list returned by loadChunksInBatches
    retryRound,     \* retryFailedChunks
    toRetry,        \* retryFailedChunks
    stillFailed,    \* retryFailedChunks
    finalData,      \* assembled bytes, or NoData
    rendered,       \* init reached document.write
    \* history variables (observations of the run, never read by the loader)
    response,       \* raw aggregate3 response that produced `results`
    readOrder,      \* addresses read individually for the current group
    aggCalls,       \* aggregate3 calls issued for the current group
    exhausted,      \* batch phase: group offsets whose aggregate call failed
                    \* every attempt
    indivFailed,    \* batch phase: leaf indices whose individual read failed
    retried,        \* leaf indices fetched by the retry coordinator
    roundThrown,    \* leaf indices whose fetch threw in the current round
    tried,          \* leaf index -> retry rounds in which the leaf was
                    \* fetched, for the leaves the coordinator has not
                    \* obtained (0 for the others)
    leafFetches,    \* TRUE once any leaf payload request was issued
    okReads,        \* addresses for which some read returned the payload
    scanRuns,       \* number of collectLeafAddresses calls of this load
    visits,         \* <<run, address>> of branch nodes read by discovery
    unreadable,     \* a branch node failed every attempt of its read
    \* a second, independent discovery run over the same tree
    scanB,          \* its collectLeafAddresses state
    fails,          \* failed read attempts of the two runs, <<A, B>>
    \* the video loader (video-loader.js)
    vmode,          \* init: "raw" (?raw=true), "mse" (MediaSource supports a
                    \* type), "nomse"; "none" in the generic loader
    vfn,            \* the running load function: "stream", "direct";
                    \* "generic" in the generic loader
    chunkDataMap,   \* streamVideoWithSegments: chunkIndex -> bytes
    directChunks,   \* fallbackLoad: the chunks array, chunkIndex -> bytes
    stream,         \* streamVideoWithSegments: segmentsParsed,
                    \* adjustedSegments, nextSegmentToAppend, the global
                    \* headerLength; handed = the segment indices
                    \* appendSegment was called for (history)
    sourceBuffer,   \* the MediaSource SourceBuffer: updating, and the
                    \* buffers it accepted (appended)
    mediaSource,    \* the MediaSource: readyState ("none" before
                    \* setupMediaSource, then "open", "ended")
    settings,       \* init's configuration: the URL parameters, the
                    \* answer of /api/config, and the BATCH_SIZE and
                    \* CHUNK_SIZE resolved from them (unscaled)
    resolver,       \* the extension's name resolution (resolve,
                    \* resolveMega): its position, what the gateway API
                    \* answered, the eth_calls made, the source returned
    site,           \* the extension's loadContent / loadSite call
    visitHistory,   \* chrome.storage.local "visitHistory"
    saves,          \* the saveToHistory calls in progress
    viewer,         \* the extension viewer's loadBySiteName call
    deploy,         \* the publisher's deployChunks call
    built,          \* the publisher's buildTree call
    step,           \* the publisher's withRetry call
    reader,         \* one single-address read (fetchChunkData, readChunk):
                    \* its budget, attempt index, the attempts made, the
                    \* failures met, the backoff waits made
    wire,           \* the targets of the remote requests sent and not yet
                    \* answered
    \* two loadChunksInBatches runs over the same leaf list with a reader
    \* that never errors
    fetchA,         \* the run with USE_MULTICALL on
    fetchB,         \* the run with USE_MULTICALL off
    \* a reader that fails the fetch of each leaf a fixed number of times
    kFail,          \* the fixed number
    budget          \* leaf index -> fetches of the leaf still to fail

varsLoad == <<tree, BATCH_SIZE, USE_MULTICALL, pc, scan, leaves, i, batch, j, k,
          att, results, chunks, failed, retryRound, toRetry, stillFailed,
          finalData, rendered, response, readOrder, aggCalls, exhausted,
          indivFailed, retried, leafFetches, okReads, scanRuns, visits,
          unreadable, scanB, fails, vmode, vfn, chunkDataMap, directChunks,
          fetchA, fetchB, roundThrown, tried, kFail, budget, stream,
          sourceBuffer, mediaSource>>

varsTools == <<site, visitHistory, saves, viewer, deploy, built, step>>

varsButWire == <<varsLoad, settings, resolver, reader, varsTools>>

vars == <<varsButWire, wire>>

NoData == <<-1>>

(***************************************************************************)
(* The extension and the publisher when they are not under study            *)
(***************************************************************************)
Idle == [phase |-> "idle"]

IdleBut(v) ==
    /\ v = "site" \/ site = Idle
    /\ v = "visitHistory" \/ visitHistory = << >>
    /\ v = "saves" \/ saves = [calls |-> << >>, now |-> 0]
    /\ v = "viewer" \/ viewer = Idle
    /\ v = "deploy" \/ deploy = Idle
    /\ v = "built" \/ built = Idle
    /\ v = "step" \/ step = Idle

ToolsIdle == IdleBut("")

\* the variables one of them leaves alone
unchangedBut(v) ==
    /\ UNCHANGED <<varsLoad, wire, settings, resolver, reader>>
    /\ v = "site" \/ UNCHANGED site
    /\ v = "visitHistory" \/ UNCHANGED visitHistory
    /\ v = "saves" \/ UNCHANGED saves
    /\ v = "viewer" \/ UNCHANGED viewer
    /\ v = "deploy" \/ UNCHANGED deploy
    /\ v = "built" \/ UNCHANGED built
    /\ v = "step" \/ UNCHANGED step

(***************************************************************************)
(* Remote reader                                                           *)
(***************************************************************************)
\* outcomes one Page.read() request can have: a read of an address that
\* holds no page can only fail
ReadOutcomes(store, address) ==
    IF address \in DOMAIN store THEN {TRUE, FALSE} ELSE {FALSE}

\* mutant: the last error is thrown one attempt late
fetchChunkData_oneMore(attempt, retries, ok) ==
    IF ok THEN "return"
    ELSE IF attempt = retries THEN "throw"
    ELSE "again"

\* fetchChunkData is a loop of `retries` attempts; given the 0-based attempt
\* number and the outcome of this attempt it returns, throws or backs off
fetchChunkData(attempt, retries, ok) ==
    IF ok THEN "return"
    ELSE IF attempt = retries - 1 THEN "throw"
    ELSE "again"

(***************************************************************************)
(* Phase 1: collectLeafAddresses / traverseNode                            *)
(***************************************************************************)
\* child addresses of a branch payload: one per started 20-byte stride
childAddrs(data) ==
    [n \in 1..((Len(data) + ADDR_LEN - 1) \div ADDR_LEN) |->
        toHex(slice(data, (n - 1) * ADDR_LEN, n * ADDR_LEN))]

\* mutant: the counter is incremented before it is read (++currentIndex)
leafEntry_preIncrement(currentIndex, address) ==
    [index |-> currentIndex + 1, address |-> address]

\* the entry pushed for a leaf: leaves.push({ index: currentIndex++, address })
leafEntry(currentIndex, address) ==
    [index |-> currentIndex, address |-> address]

\* state of a fresh collectLeafAddresses(rootChunk, depth) call; todo is the
\* list of pending traverseNode calls in call order
ScanStart(rootChunk, depth) ==
    [todo |-> <<[address |-> rootChunk, nodeDepth |-> depth]>>,
     leaves |-> << >>, currentIndex |-> 0, i |-> 0, thrown |-> FALSE]

\* mutant: a node whose read failed is moved behind the pending nodes
onReadRetry_requeue(s) ==
    [s EXCEPT !.todo = Tail(@) \o <<Head(@)>>, !.i = @ + 1]

\* mutant: the attempt counter stays where it is
onReadRetry_sameAttempt(s) == s

\* fetchChunkData: a failed attempt that is not the last one backs off and
\* reads the same address again
onReadRetry(s) == [s EXCEPT !.i = @ + 1]

\* mutant: the catch logs and goes on with the next sibling
onReadThrow_swallow(s) == [s EXCEPT !.todo = Tail(@), !.i = 0]

\* the catch of traverseNode: log, then rethrow
onReadThrow(s) == [s EXCEPT !.thrown = TRUE]

\* one step of the traversal: a leaf is emitted, or one read attempt of the
\* branch node at the head of todo is made with outcome ok
traverseNode(s, store, ok) ==
    LET node == Head(s.todo) IN
    IF node.nodeDepth = 0
    THEN [s EXCEPT !.leaves = Append(@, leafEntry(s.currentIndex,
                                                   node.address)),
                   !.currentIndex = @ + 1,
                   !.todo = Tail(@)]
    ELSE CASE fetchChunkData(s.i, ScanRetries, ok) = "return" ->
                LET kids == childAddrs(store[node.address]) IN
                [s EXCEPT !.todo = [n \in 1..Len(kids) |->
                                       [address |-> kids[n],
                                        nodeDepth |-> node.nodeDepth - 1]]
                                   \o Tail(@),
                          !.i = 0]
           [] fetchChunkData(s.i, ScanRetries, ok) = "throw" ->
                onReadThrow(s)
           [] OTHER -> onReadRetry(s)

ScanRunning(s) == ~s.thrown /\ s.todo # << >>

\* (okReads is listed by each action)
unchangedFetch == UNCHANGED <<i, batch, j, k, att, results, chunks, failed,
                               response, readOrder, aggCalls, exhausted,
                               indivFailed, leafFetches>>
unchangedRetry == UNCHANGED <<retryRound, toRetry, stillFailed, retried,
                               roundThrown, tried>>
unchangedPair == UNCHANGED <<fetchA, fetchB>>
unchangedInjector == UNCHANGED <<kFail, budget>>
unchangedStream == UNCHANGED <<stream, sourceBuffer, mediaSource>>
\* (the actions that answer a request list wire themselves)
unchangedButWire ==
    /\ UNCHANGED <<tree, BATCH_SIZE, USE_MULTICALL, scanB, fails, vmode, vfn,
                   chunkDataMap, directChunks, settings, resolver, reader,
                   varsTools>>
    /\ unchangedPair /\ unchangedInjector /\ unchangedStream
unchangedSetup == unchangedButWire /\ UNCHANGED wire

\* the address of the Multicall3 contract
MULTICALL3_ADDRESS == Addr(202)

\* mutant: the children of a branch node are traversed concurrently
scanRequests_allSiblings(s) ==
    {s.todo[n].address : n \in {m \in DOMAIN s.todo : s.todo[m].nodeDepth > 0}}

\* traverseNode awaits each child in turn: the only read discovery sends
\* is that of the node it is at
scanRequests(s) ==
    IF Head(s.todo).nodeDepth > 0 THEN {Head(s.todo).address} ELSE {}

\* batch[idx] past the end of the group
Undefined == [index |-> -1, address |-> << >>]

\* the request the load sends at its position: client.readContract of a
\* node (traverseNode), of Multicall3 (fetchChunksBatch), or of a leaf
\* (fetchChunksIndividually, retryFailedChunks)
requestsAt ==
    CASE pc = "scan" /\ ScanRunning(scan) -> scanRequests(scan)
      [] pc = "multicall" -> {MULTICALL3_ADDRESS}
      [] pc = "individual" -> {batch[k].address}
      [] pc = "retry_fetch" /\ toRetry[k] # Undefined -> {toRetry[k].address}
      [] OTHER -> {}

\* client.readContract is called: the request is on the wire and the load
\* is suspended in its await
IssueRequest ==
    /\ \E r \in requestsAt \ wire : wire' = wire \cup {r}
    /\ UNCHANGED varsButWire

\* the awaited request to the target is answered (or fails)
Answered(target) == target \in wire /\ wire' = wire \ {target}

\* traverseNode at depth 0: no request
ScanLeaf ==
    /\ pc = "scan" /\ ScanRunning(scan)
    /\ UNCHANGED okReads
    /\ Head(scan.todo).nodeDepth = 0
    /\ scan' = traverseNode(scan, tree.store, TRUE)
    /\ UNCHANGED <<pc, leaves, finalData, rendered, scanRuns, visits,
                   unreadable>>
    /\ unchangedFetch /\ unchangedRetry /\ unchangedSetup

\* traverseNode at depth > 0: one read attempt of the node; the third failed
\* attempt throws out of collectLeafAddresses and fetchTreeSequential into
\* the catch of init (loader.js:695)
ScanRead ==
    /\ pc = "scan" /\ ScanRunning(scan)
    /\ Head(scan.todo).nodeDepth > 0
    /\ \E ok \in ReadOutcomes(tree.store, Head(scan.todo).address) :
          /\ scan' = traverseNode(scan, tree.store, ok)
          /\ pc' = IF scan'.thrown THEN "error" ELSE "scan"
          /\ okReads' = IF ok THEN okReads \cup {Head(scan.todo).address}
                        ELSE okReads
          /\ unreadable' = (unreadable \/ (~ok /\ scan.i >= 2))
    /\ visits' = visits \cup {<<scanRuns, Head(scan.todo).address>>}
    /\ Answered(Head(scan.todo).address)
    /\ UNCHANGED <<leaves, finalData, rendered, scanRuns>>
    /\ unchangedFetch /\ unchangedRetry /\ unchangedButWire

\* collectLeafAddresses returns; fetchTreeSequential enters loadChunksInBatches
ScanDone ==
    /\ pc = "scan" /\ ~scan.thrown /\ scan.todo = << >>
    /\ UNCHANGED okReads
    /\ leaves' = scan.leaves
    /\ i' = 0
    /\ pc' = "batch"
    /\ UNCHANGED <<scan, batch, j, k, att, results, chunks, failed, finalData,
                   rendered, response, readOrder, aggCalls, exhausted,
                   indivFailed, leafFetches, scanRuns, visits,
                   unreadable>>
    /\ unchangedRetry /\ unchangedSetup


(***************************************************************************)
(* Multicall3 aggregate3 and the ABI decoding of its slots                 *)
(***************************************************************************)
\* ABI encoding of one `bytes` return value: offset word, length word, the
\* bytes, zero padding to a multiple of 32 (a word is kept as one number)
AbiEncodeBytes(data) ==
    <<32, Len(data)>> \o data
        \o [n \in 1..((32 - (Len(data) % 32)) % 32) |-> 0]

\* mutant: the decoded value keeps the zero padding of the encoding
AbiDecodeBytes_withPadding(returnData) ==
    SubSeq(returnData, 3, Len(returnData))

\* viem decodeAbiParameters([{type:'bytes'}], returnData) throws on data
\* whose offset or length does not fit
AbiDecodable(returnData) ==
    /\ Len(returnData) >= 2
    /\ returnData[1] = 32
    /\ returnData[2] <= Len(returnData) - 2

AbiDecodeBytes(returnData) == SubSeq(returnData, 3, 2 + returnData[2])

\* what one slot of an aggregate3 response can be: the page's bytes, a
\* reverted call (success = false), empty return data ('0x'), or return data
\* that does not decode
SlotKinds == {"ok", "reverted", "empty", "garbled"}

SlotKindsOf(store, address) ==
    IF address \in DOMAIN store THEN SlotKinds ELSE SlotKinds \ {"ok"}

Slot(store, address, kind) ==
    CASE kind = "ok" ->
            [success |-> TRUE, returnData |-> AbiEncodeBytes(store[address])]
      [] kind = "reverted" -> [success |-> FALSE, returnData |-> << >>]
      [] kind = "empty" -> [success |-> TRUE, returnData |-> << >>]
      [] OTHER -> [success |-> TRUE, returnData |-> <<32, 64>>]

Success(data) == [success |-> TRUE, data |-> data, error |-> ""]
Failure(error) == [success |-> FALSE, data |-> << >>, error |-> error]

\* mutant: one slot that does not yield bytes fails the whole response
parseResults_allOrNothing(resp) ==
    IF \A n \in 1..Len(resp) :
          /\ resp[n].success /\ resp[n].returnData # << >>
          /\ AbiDecodable(resp[n].returnData)
    THEN [n \in 1..Len(resp) |-> Success(AbiDecodeBytes(resp[n].returnData))]
    ELSE [n \in 1..Len(resp) |-> Failure("Failed to fetch chunk")]

\* fetchChunksBatch: the results.map over a returned aggregate3 response
parseResults(resp) ==
    [n \in 1..Len(resp) |->
        IF resp[n].success /\ resp[n].returnData # << >>
        THEN IF AbiDecodable(resp[n].returnData)
             THEN Success(AbiDecodeBytes(resp[n].returnData))
             ELSE Failure("Decode error")
        ELSE Failure("Failed to fetch chunk")]

\* fetchChunksBatch: which path a call takes on entry
batchPath(useMulticall, addresses) ==
    IF ~useMulticall \/ Len(addresses) = 0 THEN "individual" ELSE "multicall"

\* fetchChunksBatch: the catch of one failed aggregate attempt (0-based
\* attempt number)
aggregateCatch(attempt, retries) ==
    IF attempt = retries - 1 THEN "fallback" ELSE "again"

\* mutant: only the reads that succeeded are pushed
fetchChunksIndividually_skipFailed(st, outcome, data) ==
    CASE outcome = "return" ->
            [results |-> Append(st.results, Success(data)),
             k |-> st.k + 1, att |-> 0]
      [] outcome = "throw" ->
            [results |-> st.results, k |-> st.k + 1, att |-> 0]
      [] OTHER -> [st EXCEPT !.att = @ + 1]

\* fetchChunksIndividually: the effect of one read attempt on the loop state
\* st = [results, k, att]; outcome is that of fetchChunkData
fetchChunksIndividually(st, outcome, data) ==
    CASE outcome = "return" ->
            [results |-> Append(st.results, Success(data)),
             k |-> st.k + 1, att |-> 0]
      [] outcome = "throw" ->
            [results |-> Append(st.results, Failure("read failed")),
             k |-> st.k + 1, att |-> 0]
      [] OTHER -> [st EXCEPT !.att = @ + 1]

(***************************************************************************)
(* Phase 2: loadChunksInBatches                                            *)
(***************************************************************************)
Min(a, b) == IF a < b THEN a ELSE b

\* Array.prototype.slice(from, to) of the leaf list
batchOf(list, from, size) == slice(list, from, Min(from + size, Len(list)))

\* the forEach over the results of one group: a successful result with data
\* goes to chunks, anything else to failed; `batch[idx]` is undefined past
\* the end of the group and reading its index throws into the catch, which
\* pushes the whole group to failed
\* mutant: a failed result is only logged
recordFailure_logOnly(fs, leaf) == fs

\* failed.push(leaf)
recordFailure(fs, leaf) == Append(fs, leaf)

RECURSIVE forEachResult(_, _, _, _, _)
forEachResult(res, group, idx, cs, fs) ==
    IF idx > Len(res) THEN [chunks |-> cs, failed |-> fs]
    ELSE IF idx > Len(group)
    THEN [chunks |-> cs,
          failed |-> (IF res[idx].success THEN fs ELSE Append(fs, Undefined))
                     \o group]
    ELSE IF res[idx].success
    THEN forEachResult(res, group, idx + 1,
                       Append(cs, [index |-> group[idx].index,
                                   data |-> res[idx].data]), fs)
    ELSE forEachResult(res, group, idx + 1, cs, recordFailure(fs, group[idx]))

\* top of the for loop with i < leaves.length: the group is cut and
\* fetchChunksBatch(batchAddresses, 2) is entered
BatchBegin ==
    /\ pc = "batch" /\ i < Len(leaves)
    /\ UNCHANGED okReads
    /\ batch' = batchOf(leaves, i, BATCH_SIZE)
    \* fetchChunksIndividually of no address returns [] without a read
    /\ pc' = IF batch' = << >> THEN "results"
             ELSE batchPath(USE_MULTICALL, batch')
    /\ j' = 0 /\ k' = 1 /\ att' = 0
    /\ results' = << >>
    /\ response' = << >> /\ readOrder' = << >> /\ aggCalls' = 0
    /\ UNCHANGED <<scan, leaves, i, chunks, failed, finalData, rendered,
                   exhausted, indivFailed, leafFetches, scanRuns, visits,
                   unreadable>>
    /\ unchangedRetry /\ unchangedSetup

\* one aggregate3 call: it returns a response of one of the given numbers
\* of slots (a slot past the calls repeats the last call), or fails at
\* transport level; the last failed attempt starts the fallback
Aggregate3Returning(sizes) ==
    /\ pc = "multicall"
    /\ aggCalls' = aggCalls + 1
    /\ leafFetches' = TRUE
    /\ \/ \E size \in sizes : \E kinds \in [1..size -> SlotKinds] :
            LET call == [n \in 1..size |-> batch[Min(n, Len(batch))]] IN
            /\ \A n \in 1..size :
                  kinds[n] \in SlotKindsOf(tree.store, call[n].address)
            /\ response' = [n \in 1..size |->
                               Slot(tree.store, call[n].address, kinds[n])]
            /\ results' = parseResults(response')
            /\ okReads' = okReads \cup {call[n].address :
                                n \in {m \in 1..size : kinds[m] = "ok"}}
            /\ pc' = "results"
            /\ UNCHANGED <<j, exhausted>>
       \/ /\ IF aggregateCatch(j, BatchRetries) = "fallback"
             THEN /\ pc' = "individual"
                  /\ exhausted' = exhausted \cup {i}
                  /\ j' = j
             ELSE /\ pc' = "multicall"
                  /\ j' = j + 1
                  /\ UNCHANGED exhausted
          /\ UNCHANGED <<results, response, okReads>>
    /\ Answered(MULTICALL3_ADDRESS)
    /\ UNCHANGED <<scan, leaves, i, batch, k, att, chunks, failed, finalData,
                   rendered, readOrder, indivFailed, scanRuns, visits,
                   unreadable>>
    /\ unchangedRetry /\ unchangedButWire

\* Multicall3.aggregate3 returns one result per call
Aggregate3 == Aggregate3Returning({Len(batch)})

\* a batched reader whose response may have a slot less or more than the
\* group has calls
Aggregate3AnySize ==
    Aggregate3Returning((Len(batch) - 1)..(Len(batch) + 1))

\* one read attempt of fetchChunksIndividually for the k-th address of the
\* group
IndividualRead ==
    /\ pc = "individual"
    /\ LET leaf == batch[k] IN
       \E ok \in ReadOutcomes(tree.store, leaf.address) :
          LET outcome == fetchChunkData(att, BatchRetries, ok)
              st == fetchChunksIndividually(
                        [results |-> results, k |-> k, att |-> att], outcome,
                        IF ok THEN tree.store[leaf.address] ELSE << >>)
          IN  /\ results' = st.results
              /\ k' = st.k
              /\ att' = st.att
              /\ pc' = IF st.k > Len(batch) THEN "results" ELSE "individual"
              /\ indivFailed' = IF outcome = "throw"
                                THEN indivFailed \cup {leaf.index}
                                ELSE indivFailed
              /\ readOrder' = IF att = 0 THEN Append(readOrder, leaf.address)
                              ELSE readOrder
              /\ okReads' = IF ok THEN okReads \cup {leaf.address}
                            ELSE okReads
    /\ leafFetches' = TRUE
    /\ Answered(batch[k].address)
    /\ UNCHANGED <<scan, leaves, i, batch, j, chunks, failed, finalData,
                   rendered, response, aggCalls, exhausted, scanRuns, visits,
                   unreadable>>
    /\ unchangedRetry /\ unchangedButWire

\* the results of the group are recorded; the pacing pause follows unless
\* this was the last group
ProcessResults ==
    /\ pc = "results"
    /\ UNCHANGED okReads
    /\ LET r == forEachResult(results, batch, 1, chunks, failed) IN
          /\ chunks' = r.chunks
          /\ failed' = r.failed
    /\ IF i + BATCH_SIZE < Len(leaves)
       THEN pc' = "pause" /\ i' = i
       ELSE pc' = "batch" /\ i' = i + BATCH_SIZE
    /\ UNCHANGED <<scan, leaves, batch, j, k, att, results, finalData,
                   rendered, response, readOrder, aggCalls, exhausted,
                   indivFailed, leafFetches, scanRuns, visits,
                   unreadable>>
    /\ unchangedRetry /\ unchangedSetup

\* the 100 ms pause between two groups, then the loop increment
BatchPause ==
    /\ pc = "pause"
    /\ UNCHANGED okReads
    /\ i' = i + BATCH_SIZE
    /\ pc' = "batch"
    /\ UNCHANGED <<scan, leaves, batch, j, k, att, results, chunks, failed,
                   finalData, rendered, response, readOrder, aggCalls,
                   exhausted, indivFailed, leafFetches, scanRuns, visits,
                   unreadable>>
    /\ unchangedRetry /\ unchangedSetup

\* the loop ends; loadChunksInBatches returns {chunks, failed} and its
\* locals (i, batch, results and the loop state of its callees) are gone
BatchReturn ==
    /\ pc = "batch" /\ i >= Len(leaves)
    /\ UNCHANGED okReads
    /\ pc' = "phase3"
    /\ i' = 0 /\ batch' = << >> /\ j' = 0 /\ k' = 1 /\ att' = 0
    /\ results' = << >>
    /\ response' = << >> /\ readOrder' = << >> /\ aggCalls' = 0
    /\ UNCHANGED <<scan, leaves, chunks, failed, finalData, rendered,
                   exhausted, indivFailed, leafFetches, scanRuns, visits,
                   unreadable>>
    /\ unchangedRetry /\ unchangedSetup


(***************************************************************************)
(* Phase 3: retryFailedChunks                                              *)
(***************************************************************************)
\* mutant: the loop runs while the round counter is at most the limit
retryCondition_inclusive(queue, round) ==
    Len(queue) > 0 /\ round <= MaxRetryRounds

\* mutant: the loop stops one round early
retryCondition_oneLess(queue, round) ==
    Len(queue) > 0 /\ round < MaxRetryRounds - 1

\* mutant: the loop needs more than one queued leaf
retryCondition_moreThanOne(queue, round) ==
    Len(queue) > 1 /\ round < MaxRetryRounds

\* the while condition of retryFailedChunks
retryCondition(queue, round) == Len(queue) > 0 /\ round < MaxRetryRounds

\* mutant: a leaf is queued for the next round whatever its fetch returned
retryLeaf_requeueAll(st, outcome, leaf, data) ==
    CASE outcome = "return" ->
            [st EXCEPT !.chunks = Append(@, [index |-> leaf.index,
                                             data |-> data]),
                       !.stillFailed = Append(@, leaf),
                       !.k = @ + 1, !.att = 0]
      [] outcome = "throw" ->
            [st EXCEPT !.stillFailed = Append(@, leaf),
                       !.k = @ + 1, !.att = 0]
      [] OTHER -> [st EXCEPT !.att = @ + 1]

\* the effect of one read attempt of a retry round on
\* st = [chunks, stillFailed, k, att]; outcome is that of fetchChunkData
retryLeaf(st, outcome, leaf, data) ==
    CASE outcome = "return" ->
            [st EXCEPT !.chunks = Append(@, [index |-> leaf.index,
                                             data |-> data]),
                       !.k = @ + 1, !.att = 0]
      [] outcome = "throw" ->
            [st EXCEPT !.stillFailed = Append(@, leaf),
                       !.k = @ + 1, !.att = 0]
      [] OTHER -> [st EXCEPT !.att = @ + 1]

\* fetchTreeSequential after loadChunksInBatches returned
Phase3 ==
    /\ pc = "phase3"
    /\ UNCHANGED okReads
    /\ IF Len(failed) > 0
       THEN /\ pc' = "retry_loop"
            /\ retryRound' = 0
            /\ toRetry' = failed
            /\ stillFailed' = << >>
       ELSE /\ pc' = "assemble"
            /\ UNCHANGED <<retryRound, toRetry, stillFailed>>
    /\ UNCHANGED <<roundThrown, tried>>
    /\ exhausted' = {} /\ indivFailed' = {}
    /\ UNCHANGED <<scan, leaves, i, batch, j, k, att, results, chunks, failed,
                   finalData, rendered, response, readOrder, aggCalls,
                   retried, leafFetches, scanRuns, visits,
                   unreadable>>
    /\ unchangedSetup

\* a retry round starts (round counter, fresh stillFailed, the 500 ms * round
\* wait)
RetryRoundBegin ==
    /\ pc = "retry_loop" /\ retryCondition(toRetry, retryRound)
    /\ UNCHANGED okReads
    /\ retryRound' = retryRound + 1
    /\ stillFailed' = << >>
    /\ roundThrown' = {}
    /\ UNCHANGED tried
    /\ k' = 1 /\ att' = 0
    /\ pc' = "retry_fetch"
    /\ UNCHANGED <<scan, leaves, i, batch, j, results, chunks, failed,
                   toRetry, finalData, rendered, response, readOrder,
                   aggCalls, exhausted, indivFailed, retried, leafFetches,
                   scanRuns, visits,
                   unreadable>>
    /\ unchangedSetup

\* one read attempt for the k-th leaf of the round; after the last leaf the
\* round's failures become the next queue
RetryFetchWith(ok) ==
    /\ pc = "retry_fetch"
    /\ LET leaf == toRetry[k] IN
          LET st == retryLeaf([chunks |-> chunks, stillFailed |-> stillFailed,
                               k |-> k, att |-> att],
                              fetchChunkData(att, ScanRetries, ok), leaf,
                              IF ok THEN tree.store[leaf.address] ELSE << >>)
          IN  /\ roundThrown' =
                    IF fetchChunkData(att, ScanRetries, ok) = "throw"
                    THEN roundThrown \cup {leaf.index} ELSE roundThrown
              /\ tried' =
                    IF fetchChunkData(att, ScanRetries, ok) = "return"
                    THEN [tried EXCEPT ![leaf.index] = 0]
                    ELSE IF att = 0
                    THEN [tried EXCEPT ![leaf.index] = @ + 1]
                    ELSE tried
              /\ chunks' = st.chunks
              /\ k' = st.k
              /\ att' = st.att
              /\ IF st.k > Len(toRetry)
                 THEN /\ toRetry' = st.stillFailed
                      /\ stillFailed' = st.stillFailed
                      /\ pc' = "retry_loop"
                 ELSE /\ stillFailed' = st.stillFailed
                      /\ pc' = "retry_fetch"
                      /\ UNCHANGED toRetry
              /\ retried' = retried \cup {leaf.index}
              /\ okReads' = IF ok THEN okReads \cup {leaf.address}
                            ELSE okReads
    /\ UNCHANGED <<scan, leaves, i, batch, j, results, failed, retryRound,
                   finalData, rendered, response, readOrder, aggCalls,
                   exhausted, indivFailed, leafFetches, scanRuns, visits,
                   unreadable>>
    /\ UNCHANGED <<tree, BATCH_SIZE, USE_MULTICALL, scanB, fails, vmode, vfn,
                   chunkDataMap, directChunks, kFail, settings, resolver,
                   reader,
                   varsTools>>
    /\ unchangedPair /\ unchangedStream

RetryFetch ==
    /\ pc = "retry_fetch" /\ toRetry[k] # Undefined
    /\ \E ok \in ReadOutcomes(tree.store, toRetry[k].address) :
          RetryFetchWith(ok)
    /\ Answered(toRetry[k].address)
    /\ UNCHANGED budget

\* the round reaches an entry that is undefined: updateChunkRetrying(
\* leaf.index) throws out of retryFailedChunks and fetchTreeSequential into
\* the catch of init
RetryUndefined ==
    /\ pc = "retry_fetch" /\ toRetry[k] = Undefined
    /\ UNCHANGED okReads
    /\ pc' = "error"
    /\ UNCHANGED <<scan, leaves, finalData, rendered, scanRuns, visits,
                   unreadable>>
    /\ unchangedFetch /\ unchangedRetry /\ unchangedSetup

\* the while loop ends; retryFailedChunks returns
RetryEnd ==
    /\ pc = "retry_loop" /\ ~retryCondition(toRetry, retryRound)
    /\ UNCHANGED okReads
    /\ pc' = "assemble"
    /\ UNCHANGED <<scan, leaves, finalData, rendered, scanRuns, visits,
                   unreadable>>
    /\ unchangedFetch /\ unchangedRetry /\ unchangedSetup

(***************************************************************************)
(* Assembly and rendering                                                  *)
(***************************************************************************)
\* chunks.sort((a, b) => a.index - b.index): stable, ascending by index
RECURSIVE insertByIndex(_, _)
insertByIndex(sorted, c) ==
    IF sorted = << >> THEN <<c>>
    ELSE IF Head(sorted).index <= c.index
    THEN <<Head(sorted)>> \o insertByIndex(Tail(sorted), c)
    ELSE <<c>> \o sorted

RECURSIVE sortByIndex(_)
sortByIndex(cs) ==
    IF cs = << >> THEN << >>
    ELSE insertByIndex(sortByIndex(SubSeq(cs, 1, Len(cs) - 1)), cs[Len(cs)])

\* mutant: the buffer is cut to the declared total size
assemble_toTotalSize(cs) ==
    LET sorted == sortByIndex(cs)
    IN  slice(Concat([n \in 1..Len(sorted) |-> sorted[n].data]), 0,
              tree.totalSize)

\* mutant: the chunks are copied in the order they were obtained
assemble_unsorted(cs) == Concat([n \in 1..Len(cs) |-> cs[n].data])

\* fetchTreeSequential: sort by index, then copy every chunk at the running
\* offset into a buffer of the summed length
assemble(cs) ==
    LET sorted == sortByIndex(cs)
    IN  Concat([n \in 1..Len(sorted) |-> sorted[n].data])

Assemble ==
    /\ pc = "assemble"
    /\ UNCHANGED okReads
    /\ finalData' = assemble(chunks)
    /\ chunks' = sortByIndex(chunks)
    /\ pc' = "rendering"
    /\ UNCHANGED <<scan, leaves, i, batch, j, k, att, results, failed,
                   rendered, response, readOrder, aggCalls, exhausted,
                   indivFailed, leafFetches, scanRuns, visits,
                   unreadable>>
    /\ unchangedRetry /\ unchangedSetup

\* init: the returned bytes are decoded and written to the document
Render ==
    /\ pc = "rendering"
    /\ UNCHANGED okReads
    /\ rendered' = TRUE
    /\ pc' = "done"
    /\ UNCHANGED <<scan, leaves, finalData, scanRuns, visits,
                   unreadable>>
    /\ unchangedFetch /\ unchangedRetry /\ unchangedSetup

(***************************************************************************)
(* loadChunksInBatches with a reader that never errors: every aggregate    *)
(* call returns the page bytes in every slot, every individual read        *)
(* returns at its first attempt.  f = [pc, i, batch, k, results, chunks,    *)
(* failed] is the state of one run.                                        *)
(***************************************************************************)
FetchStart ==
    [pc |-> "batch", i |-> 0, batch |-> << >>, k |-> 1, results |-> << >>,
     chunks |-> << >>, failed |-> << >>]

cleanFetchStep(f, useMulticall, list, size, store) ==
    CASE f.pc = "batch" ->
            IF f.i < Len(list)
            THEN LET group == batchOf(list, f.i, size) IN
                 [f EXCEPT !.batch = group,
                           !.pc = batchPath(useMulticall, group),
                           !.k = 1, !.results = << >>]
            ELSE [f EXCEPT !.pc = "returned", !.batch = << >>,
                           !.results = << >>]
      [] f.pc = "multicall" ->
            [f EXCEPT !.results =
                          parseResults([n \in 1..Len(f.batch) |->
                              Slot(store, f.batch[n].address, "ok")]),
                      !.pc = "results"]
      [] f.pc = "individual" ->
            LET st == fetchChunksIndividually(
                          [results |-> f.results, k |-> f.k, att |-> 0],
                          fetchChunkData(0, BatchRetries, TRUE),
                          store[f.batch[f.k].address])
            IN  [f EXCEPT !.results = st.results, !.k = st.k,
                          !.pc = IF st.k > Len(f.batch) THEN "results"
                                 ELSE "individual"]
      [] f.pc = "results" ->
            LET r == forEachResult(f.results, f.batch, 1, f.chunks, f.failed)
            IN  [f EXCEPT !.chunks = r.chunks, !.failed = r.failed,
                          !.i = @ + size, !.pc = "batch"]
      [] OTHER -> f

(***************************************************************************)
(* The generic loader (loader.js)                                          *)
(***************************************************************************)
InitLoader(published, sizes, conf, res, rd) ==
    /\ settings = conf /\ resolver = res /\ reader = rd
    /\ tree \in published
    /\ BATCH_SIZE \in sizes
    /\ USE_MULTICALL \in BOOLEAN
    /\ pc = "scan"
    /\ scan = ScanStart(tree.rootChunk, tree.depth)
    /\ leaves = << >>
    /\ i = 0 /\ batch = << >> /\ j = 0 /\ k = 1 /\ att = 0
    /\ results = << >> /\ chunks = << >> /\ failed = << >>
    /\ retryRound = 0 /\ toRetry = << >> /\ stillFailed = << >>
    /\ finalData = NoData /\ rendered = FALSE
    /\ response = << >> /\ readOrder = << >> /\ aggCalls = 0
    /\ exhausted = {} /\ indivFailed = {} /\ retried = {}
    /\ leafFetches = FALSE /\ okReads = {}
    /\ scanRuns = 1 /\ visits = {} /\ unreadable = FALSE
    /\ scanB = ScanStart(tree.rootChunk, tree.depth)
    /\ fails = <<0, 0>>
    /\ chunkDataMap = << >> /\ directChunks = << >>
    /\ stream = StreamStart /\ sourceBuffer = SourceBufferStart
    /\ mediaSource = MediaSourceStart
    /\ wire = {}
    /\ fetchA = FetchStart /\ fetchB = FetchStart
    /\ roundThrown = {}
    /\ tried = [n \in 0..(Len(tree.leafIds) - 1) |-> 0]
    /\ budget = [n \in 0..(Len(tree.leafIds) - 1) |-> kFail]

InitLoadFor(published, conf, res, rd) ==
    InitLoader(published, 1..MaxBatch, conf, res, rd) /\ ToolsIdle

InitLoadAfter(published, conf, res) ==
    InitLoadFor(published, conf, res, NoRead)

InitLoadWith(published, conf) == InitLoadAfter(published, conf, Resolved)

InitLoadOf(published) == InitLoadWith(published, Configured)

InitLoad == InitLoadOf(Trees)

Init == kFail = 0 /\ InitLoad /\ vmode = "none" /\ vfn = "generic"

Next ==
    \/ IssueRequest
    \/ ScanLeaf \/ ScanRead \/ ScanDone
    \/ BatchBegin \/ Aggregate3 \/ IndividualRead \/ ProcessResults
    \/ BatchPause \/ BatchReturn
    \/ Phase3 \/ RetryRoundBegin \/ RetryFetch \/ RetryEnd
    \/ Assemble \/ Render

Spec == Init /\ [][Next]_vars

(***************************************************************************)
(* The generic loader over a batched reader that may answer with a         *)
(* response of another size than the group                                 *)
(***************************************************************************)
InitSlots ==
    /\ kFail = 0 /\ InitLoadOf({Tree1})
    /\ USE_MULTICALL
    /\ vmode = "none" /\ vfn = "generic"

NextSlots == Next \/ Aggregate3AnySize \/ RetryUndefined

SpecSlots == InitSlots /\ [][NextSlots]_vars

(***************************************************************************)
(* Name resolution alone                                                   *)
(***************************************************************************)
InitResolve ==
    /\ kFail = 0
    /\ \E fn \in {"resolve", "resolveMega"}, a \in BOOLEAN, c \in BOOLEAN,
          v \in BOOLEAN :
           \* resolve takes any name
           /\ fn = "resolve" => v
           /\ InitLoadAfter({Tree0}, Configured, ResolveCall(fn, a, c, v))
    /\ BATCH_SIZE = 1 /\ USE_MULTICALL
    /\ vmode = "none" /\ vfn = "generic"

\* resolveMega: normalizeMegaName gives null, the function returns null
NormalizeFails ==
    /\ resolver.phase = "start" /\ ~resolver.nameValid
    /\ resolver' = [resolver EXCEPT !.phase = "returned"]
    /\ UNCHANGED <<varsLoad, wire, settings, reader, varsTools>>

\* resolveViaApi without CONFIG.MEGANAMES_API: no request, null
ApiSkipped ==
    /\ resolver.phase = "start" /\ resolver.nameValid
    /\ resolver.fn = "resolveMega" /\ ~resolver.apiConfigured
    /\ resolver' = [resolver EXCEPT !.phase = "onchain"]
    /\ UNCHANGED <<varsLoad, wire, settings, reader, varsTools>>

\* the fetch of the gateway API under the abort timer (resolve does not
\* test CONFIG.GATEWAY_API before it)
ApiAttempt ==
    /\ resolver.phase = "start" /\ resolver.nameValid
    /\ resolver.fn = "resolve" \/ resolver.apiConfigured
    /\ \E outcome \in ApiOutcomes(resolver.fn) :
          resolver' = [resolver EXCEPT
                          !.api = outcome,
                          !.phase = afterApi(resolver.fn, outcome),
                          !.source = IF afterApi(resolver.fn, outcome)
                                          = "returned"
                                     THEN "api" ELSE @]
    /\ UNCHANGED <<varsLoad, wire, settings, reader, varsTools>>

\* resolveOnchain without a configured contract throws before any call
OnchainNotConfigured ==
    /\ resolver.phase = "onchain" /\ ~resolver.contractConfigured
    /\ resolver' = [resolver EXCEPT !.phase = "thrown"]
    /\ UNCHANGED <<varsLoad, wire, settings, reader, varsTools>>

\* one eth_call of resolveOnchain: it throws, or answers with or without a
\* record; resolveMega asks addr(tokenId) after a warren(tokenId) answer
\* without a record
OnchainCall ==
    /\ resolver.phase = "onchain" /\ resolver.contractConfigured
    /\ \E answer \in {"throw", "record", "none"} :
          resolver' = [resolver EXCEPT
                          !.ethCalls = @ + 1,
                          !.phase =
                              CASE answer = "throw" -> "thrown"
                                [] answer = "none" /\ resolver.fn = "resolveMega"
                                       /\ resolver.ethCalls = 0 -> "onchain"
                                [] OTHER -> "returned",
                          !.source = IF answer = "record" THEN "onchain"
                                     ELSE @]
    /\ UNCHANGED <<varsLoad, wire, settings, reader, varsTools>>

NextResolve ==
    \/ NormalizeFails \/ ApiSkipped \/ ApiAttempt
    \/ OnchainNotConfigured \/ OnchainCall

SpecResolve == InitResolve /\ [][NextResolve]_vars

(***************************************************************************)
(* Discovery alone: collectLeafAddresses up to its return or throw         *)
(***************************************************************************)
InitScan ==
    /\ kFail = 0 /\ InitLoadOf(ScanTrees)
    /\ vmode = "none" /\ vfn = "generic"

NextScan == IssueRequest \/ ScanLeaf \/ ScanRead \/ ScanDone

SpecScan == InitScan /\ [][NextScan]_vars

\* every call is awaited and every read is answered: a step that can be
\* taken is taken
FairScan == SpecScan /\ WF_vars(NextScan)

(***************************************************************************)
(* The extension's loader (site-loader.js): loadContent, and loadSite of   *)
(* the viewer around it                                                    *)
(***************************************************************************)
\* readChunk(address, rpcUrl, retries = 3)
ReadChunkRetries == 3

\* readChunk: the loop of `retries` attempts; an empty result ("0x") and a
\* failed call are both a failed attempt (ok = FALSE)
readChunk(attempt, retries, ok) ==
    IF ok THEN "return"
    ELSE IF attempt = retries - 1 THEN "throw"
    ELSE "again"

\* state of a fresh loadContent(rootChunk, depth, ...) call: todo is the
\* list of pending collectLeaves calls in call order, k the loop index of
\* phase 2, i the attempt number of the read in progress
LoadContent(rootChunk, depth) ==
    [phase |-> "scan",
     todo |-> <<[address |-> rootChunk, depth |-> depth]>>,
     leaves |-> << >>, i |-> 0, k |-> 0, allData |-> << >>,
     data |-> NoData, rendered |-> FALSE]

\* mutant: a leaf whose read failed for good is left out
onReadChunkThrow_skipLeaf(s) ==
    IF s.phase = "load" THEN [s EXCEPT !.k = @ + 1, !.i = 0]
    ELSE [s EXCEPT !.phase = "thrown"]

\* readChunk throws: nothing in collectLeaves, loadContent,
\* loadMasterNFTSite or loadSite catches it
onReadChunkThrow(s) == [s EXCEPT !.phase = "thrown"]

\* collectLeaves: a leaf address is pushed, or one read attempt of the node
\* at the head of todo is made
collectLeaves(s, store, ok) ==
    LET node == Head(s.todo) IN
    IF node.depth = 0
    THEN [s EXCEPT !.leaves = Append(@, node.address), !.todo = Tail(@)]
    ELSE CASE readChunk(s.i, ReadChunkRetries, ok) = "return" ->
                LET children == childAddrs(store[node.address]) IN
                [s EXCEPT !.todo = [n \in 1..Len(children) |->
                                       [address |-> children[n],
                                        depth |-> node.depth - 1]]
                                   \o Tail(@),
                          !.i = 0]
           [] readChunk(s.i, ReadChunkRetries, ok) = "throw" ->
                onReadChunkThrow(s)
           [] OTHER -> [s EXCEPT !.i = @ + 1]

\* phase 2 of loadContent: one read attempt of leaves[k]
loadLeaf(s, store, ok) ==
    CASE readChunk(s.i, ReadChunkRetries, ok) = "return" ->
            [s EXCEPT !.allData = Append(@, store[s.leaves[s.k + 1]]),
                      !.k = @ + 1, !.i = 0]
      [] readChunk(s.i, ReadChunkRetries, ok) = "throw" ->
            onReadChunkThrow(s)
      [] OTHER -> [s EXCEPT !.i = @ + 1]

InitSite ==
    /\ kFail = 0
    /\ InitLoader(ScanTrees, {1}, Configured, Resolved, NoRead)
    /\ USE_MULTICALL
    /\ vmode = "none" /\ vfn = "generic"
    /\ site = LoadContent(tree.rootChunk, tree.depth)
    /\ IdleBut("site")

CollectLeaf ==
    /\ site.phase = "scan" /\ site.todo # << >>
    /\ Head(site.todo).depth = 0
    /\ site' = collectLeaves(site, tree.store, TRUE)
    /\ unchangedBut("site")

CollectRead ==
    /\ site.phase = "scan" /\ site.todo # << >>
    /\ Head(site.todo).depth > 0
    /\ \E ok \in ReadOutcomes(tree.store, Head(site.todo).address) :
          site' = collectLeaves(site, tree.store, ok)
    /\ unchangedBut("site")

\* collectLeaves returned: phase 2 begins
CollectDone ==
    /\ site.phase = "scan" /\ site.todo = << >>
    /\ site' = [site EXCEPT !.phase = "load"]
    /\ unchangedBut("site")

LoadLeaf ==
    /\ site.phase = "load" /\ site.k < Len(site.leaves)
    /\ \E ok \in ReadOutcomes(tree.store, site.leaves[site.k + 1]) :
          site' = loadLeaf(site, tree.store, ok)
    /\ unchangedBut("site")

\* phase 3: the payloads are concatenated in the order they were pushed
\* and returned
AssembleSite ==
    /\ site.phase = "load" /\ site.k >= Len(site.leaves)
    /\ site' = [site EXCEPT !.phase = "returned",
                            !.data = Concat(site.allData)]
    /\ unchangedBut("site")

\* loadSite: renderContent(data, siteType, displayName) after the awaited
\* load
RenderSite ==
    /\ site.phase = "returned"
    /\ site' = [site EXCEPT !.phase = "rendered", !.rendered = TRUE]
    /\ unchangedBut("site")

NextSite ==
    \/ CollectLeaf \/ CollectRead \/ CollectDone
    \/ LoadLeaf \/ AssembleSite \/ RenderSite

SpecSite == InitSite /\ [][NextSite]_vars

(***************************************************************************)
(* The extension's visit history (background script): saveToHistory         *)
(***************************************************************************)
\* [entry, ...filtered].slice(0, 50): the length the list is cut to, scaled
HISTORY_LIMIT == 3

\* what a SITE_VISITED message can carry
VisitValues == {"a", "b"}
VisitTypes == {"site", "mega"}

\* mutant: only the value is compared
filterOut_byValue(list, value, type) ==
    SelectSeq(list, LAMBDA h : ~(h.value = value))

\* visitHistory.filter((h) => !(h.value === value && h.type === type))
filterOut(list, value, type) ==
    SelectSeq(list, LAMBDA h : ~(h.value = value /\ h.type = type))

\* the list saveToHistory computes from the list it read
updatedHistory(list, value, type, timestamp) ==
    slice(<<[value |-> value, type |-> type, timestamp |-> timestamp]>>
              \o filterOut(list, value, type),
          0, HISTORY_LIMIT)

InitHistory ==
    /\ kFail = 0
    /\ InitLoader({Tree0}, {1}, Configured, Resolved, NoRead)
    /\ USE_MULTICALL
    /\ vmode = "none" /\ vfn = "generic"
    /\ visitHistory = << >>
    /\ saves = [calls |-> << >>, now |-> 0]
    /\ IdleBut("visitHistory") /\ IdleBut("saves")

\* a SITE_VISITED message is handled: the listener calls saveToHistory (not
\* awaited), storage.get resolves with the stored list and the call
\* computes `updated` (Date.now() being the number of the call); the call
\* is then suspended in storage.set
SaveToHistoryRead ==
    /\ saves.now < MaxVisits
    /\ \E value \in VisitValues, type \in VisitTypes :
          saves' = [calls |-> Append(saves.calls,
                                     [value |-> value, type |-> type,
                                      read |-> visitHistory,
                                      updated |->
                                          updatedHistory(visitHistory, value,
                                                         type, saves.now + 1)]),
                    now |-> saves.now + 1]
    /\ UNCHANGED <<varsLoad, wire, settings, resolver, reader>>
    /\ UNCHANGED <<site, visitHistory, viewer, deploy, built, step>>

\* storage.set of one of the suspended calls takes effect and the call
\* completes
SaveToHistoryWrite ==
    /\ \E c \in 1..Len(saves.calls) :
          /\ visitHistory' = saves.calls[c].updated
          /\ saves' = [saves EXCEPT
                          !.calls = SubSeq(@, 1, c - 1)
                                        \o SubSeq(@, c + 1, Len(@))]
    /\ UNCHANGED <<varsLoad, wire, settings, resolver, reader>>
    /\ UNCHANGED <<site, viewer, deploy, built, step>>

NextHistory == SaveToHistoryRead \/ SaveToHistoryWrite

SpecHistory == InitHistory /\ [][NextHistory]_vars

(***************************************************************************)
(* The extension viewer: main -> loadBySiteName -> loadSite                *)
(***************************************************************************)
\* resolve(name) returned null (resolveOnchain: empty response or zero
\* owner)
NullRecord == [source |-> "null", isActive |-> "undefined",
               siteType |-> "none"]

\* what resolve(name) can return: null, or a record from the gateway API
\* (whose fields are whatever the response holds; isActive may be absent)
\* or from the chain
DnsRecords ==
    {NullRecord}
        \cup [source : {"api"}, isActive : {"true", "false", "undefined"},
              siteType : {"master_nft", "container"}]
        \cup [source : {"onchain"}, isActive : {"true", "false"},
              siteType : {"master_nft", "container"}]

\* a call of loadBySiteName(name) suspended in `await resolve(name)`
ViewerStart ==
    [phase |-> "resolving", record |-> NullRecord, error |-> "none",
     siteDataReads |-> 0, visit |-> FALSE]

\* mutant: the isActive test is left out
afterResolve_anyActivity(record) ==
    IF record = NullRecord THEN "Site not found"
    ELSE IF record.siteType = "container" THEN "Container not supported"
    ELSE "load"

\* loadBySiteName after resolve returned: the error it shows, or "load"
afterResolve(record) ==
    IF record = NullRecord THEN "Site not found"
    ELSE IF record.isActive # "true" THEN "Site deactivated"
    ELSE IF record.siteType = "container" THEN "Container not supported"
    ELSE "load"

InitViewer ==
    /\ kFail = 0
    /\ InitLoader({Tree1, Tree3}, {1}, Configured, Resolved, NoRead)
    /\ USE_MULTICALL
    /\ vmode = "none" /\ vfn = "generic"
    /\ viewer = ViewerStart
    /\ IdleBut("viewer")

\* resolve(name) returns a record or null, or throws (caught in main, which
\* shows the error)
ViewerResolved ==
    /\ viewer.phase = "resolving"
    /\ \/ \E record \in DnsRecords :
            viewer' = [viewer EXCEPT
                          !.record = record,
                          !.phase = IF afterResolve(record) = "load"
                                    THEN "siteData" ELSE "error",
                          !.error = IF afterResolve(record) = "load"
                                    THEN "none" ELSE afterResolve(record)]
       \/ viewer' = [viewer EXCEPT !.phase = "error",
                                   !.error = "DNS contract not configured"]
    /\ unchangedBut("viewer")

\* loadSite -> loadMasterNFTSite: getSiteData is read from the registry;
\* then loadContent starts, or the load throws into main's catch
ViewerSiteData ==
    /\ viewer.phase = "siteData"
    /\ \/ /\ viewer' = [viewer EXCEPT !.phase = "loading",
                                       !.siteDataReads = @ + 1]
          /\ site' = LoadContent(tree.rootChunk, tree.depth)
       \/ /\ viewer' = [viewer EXCEPT !.phase = "error",
                                       !.siteDataReads = @ + 1,
                                       !.error = "getSiteData returned empty"]
          /\ UNCHANGED site
    /\ UNCHANGED <<varsLoad, wire, settings, resolver, reader>>
    /\ UNCHANGED <<visitHistory, saves, deploy, built, step>>

\* the load threw: main's catch shows the error
ViewerLoadThrew ==
    /\ viewer.phase = "loading" /\ site.phase = "thrown"
    /\ viewer' = [viewer EXCEPT !.phase = "error",
                                !.error = "Failed to load site"]
    /\ unchangedBut("viewer")

\* loadSite returned (the content is rendered): SITE_VISITED is sent
ViewerVisit ==
    /\ viewer.phase = "loading" /\ site.phase = "rendered"
    /\ viewer' = [viewer EXCEPT !.phase = "done", !.visit = TRUE]
    /\ unchangedBut("viewer")

NextViewer ==
    \/ ViewerResolved \/ ViewerSiteData \/ ViewerLoadThrew \/ ViewerVisit
    \/ NextSite

SpecViewer == InitViewer /\ [][NextViewer]_vars

(***************************************************************************)
(* The publisher (deploy script): deployChunks                             *)
(***************************************************************************)
\* const BATCH_SIZE = 5 of the deploy script: concurrent deployments of one
\* batch, scaled
DEPLOY_BATCH_SIZE == 2

\* the address of the page created by the wallet's transaction with this
\* nonce (receipt.contractAddress)
PageAddress(nonce) == Addr(100 + nonce)

\* a call of deployChunks(wallet, provider, chunks) with n chunks on a
\* wallet that has `mined` transactions so far
DeployChunks(n, mined) ==
    [phase |-> "batch", n |-> n, bs |-> 0, be |-> 0, baseNonce |-> 0,
     mined |-> mined, nonceOf |-> << >>, completed |-> << >>,
     addrs |-> << >>]

\* mutant: the addresses are pushed in the order the deployments completed
batchAddrs_asCompleted(s) ==
    [c \in 1..Len(s.completed) |->
        PageAddress(s.nonceOf[s.completed[c] - s.bs + 1])]

\* the addresses of one batch in the order of Promise.all's result (the
\* order of the input), which the sort by idx leaves as it is
batchAddrs(s) ==
    [c \in 1..(s.be - s.bs) |-> PageAddress(s.nonceOf[c])]

InitDeploy ==
    /\ kFail = 0
    /\ InitLoader({Tree0}, {1}, Configured, Resolved, NoRead)
    /\ USE_MULTICALL
    /\ vmode = "none" /\ vfn = "generic"
    /\ \E n \in 0..MaxChunks, mined \in {0, 7} :
           deploy = DeployChunks(n, mined)
    /\ IdleBut("deploy")

\* top of the loop: the batch is cut, the base nonce is read from the
\* chain, and every deployment of the batch is started with its nonce
DeployBatchStart ==
    /\ deploy.phase = "batch" /\ deploy.bs < deploy.n
    /\ LET be == Min(deploy.bs + DEPLOY_BATCH_SIZE, deploy.n) IN
       deploy' = [deploy EXCEPT
                     !.phase = "running",
                     !.be = be,
                     !.baseNonce = deploy.mined,
                     !.nonceOf = [idx \in 1..(be - deploy.bs) |->
                                     deploy.mined + (idx - 1)],
                     !.completed = << >>]
    /\ unchangedBut("deploy")

\* one deployPage of the batch completes (its page is mined and verified),
\* or fails for good: Promise.all rejects and deployChunks throws
DeployPageDone ==
    /\ deploy.phase = "running"
    /\ \E idx \in deploy.bs..(deploy.be - 1) :
          /\ \A c \in 1..Len(deploy.completed) : deploy.completed[c] # idx
          /\ \/ deploy' = [deploy EXCEPT !.completed = Append(@, idx),
                                         !.mined = @ + 1]
             \/ deploy' = [deploy EXCEPT !.phase = "thrown"]
    /\ unchangedBut("deploy")

\* Promise.all resolved: the addresses of the batch are pushed, and the
\* loop goes on (after its 300 ms pause)
DeployBatchEnd ==
    /\ deploy.phase = "running"
    /\ Len(deploy.completed) = deploy.be - deploy.bs
    /\ deploy' = [deploy EXCEPT !.phase = "batch",
                                !.addrs = @ \o batchAddrs(deploy),
                                !.bs = deploy.be]
    /\ unchangedBut("deploy")

DeployReturn ==
    /\ deploy.phase = "batch" /\ deploy.bs >= deploy.n
    /\ deploy' = [deploy EXCEPT !.phase = "returned"]
    /\ unchangedBut("deploy")

NextDeploy ==
    DeployBatchStart \/ DeployPageDone \/ DeployBatchEnd \/ DeployReturn

SpecDeploy == InitDeploy /\ [][NextDeploy]_vars

(***************************************************************************)
(* The publisher: buildTree and deployImageData                            *)
(***************************************************************************)
\* ethers.getBytes of a hex string: one byte per two hex digits
getBytes(hex) ==
    [n \in 1..(Len(hex) \div 2) |-> hex[2 * n - 1] * 16 + hex[2 * n]]

\* process.env.GROUP_SIZE as the publisher finds it ("" when it is unset)
GroupSizeTexts == {"", "1", "2", "3", "0", "-5", "abc"}

\* const GROUP_SIZE = parseInt(process.env.GROUP_SIZE || '500')
GROUP_SIZE(env) == parseInt(IF env = "" THEN "500" ELSE env)

\* JavaScript numbers of the loop: an integer, or a value that is no
\* finite number (NaN)
Num(n) == [nan |-> FALSE, n |-> n]

NaN == [nan |-> TRUE, n |-> 0]

plus(a, b) == IF a.nan \/ b.nan THEN NaN ELSE Num(a.n + b.n)

lessThan(a, b) == ~a.nan /\ ~b.nan /\ a.n < b.n

\* Math.floor(a / b); a division by 0 gives no finite number
floorDiv(a, b) ==
    IF a.nan \/ b.nan \/ b.n = 0 THEN NaN
    ELSE IF b.n > 0 THEN Num(a.n \div b.n)
    ELSE Num((0 - a.n) \div (0 - b.n))

\* the integer a slice bound is converted to (NaN counts as 0)
toInt(a) == IF a.nan THEN 0 ELSE a.n

\* level[0] of an empty array
NoAddress == << >>

\* a call of deployImageData whose deployChunks returned these page
\* addresses, with the group size read from the environment
DeployImageData(addrs, g, mined) ==
    [phase |-> "image", GROUP_SIZE |-> g, addresses |-> addrs,
     level |-> << >>, depth |-> 0, i |-> Num(0), parent |-> << >>,
     baseNonce |-> 0, mined |-> mined, store |-> << >>,
     rootChunk |-> NoAddress]

\* i += GROUP_SIZE
nextGroup(at, g) == plus(at, g)

InitBuild ==
    /\ kFail = 0
    /\ InitLoader({Tree0}, {1}, Configured, Resolved, NoRead)
    /\ USE_MULTICALL
    /\ vmode = "none" /\ vfn = "generic"
    /\ \E n \in 0..MaxChunks, env \in GroupSizeTexts :
           built = DeployImageData([c \in 1..n |-> Addr(c)],
                                   GROUP_SIZE(env), 0)
    /\ IdleBut("built")

\* deployImageData after deployChunks: a single chunk is its own root at
\* depth 0, anything else goes to buildTree (level = [...addresses])
BuildTreeCall ==
    /\ built.phase = "image"
    /\ built' = IF Len(built.addresses) = 1
                THEN [built EXCEPT !.phase = "returned",
                                   !.rootChunk = built.addresses[1]]
                ELSE [built EXCEPT !.phase = "while",
                                   !.level = built.addresses]
    /\ unchangedBut("built")

\* while (level.length > 1): depth++, parent = [], the base nonce is read
BuildLevelStart ==
    /\ built.phase = "while" /\ Len(built.level) > 1
    /\ built.depth < MaxChunks
    /\ built' = [built EXCEPT !.phase = "for", !.depth = @ + 1,
                              !.parent = << >>, !.i = Num(0),
                              !.baseNonce = built.mined]
    /\ unchangedBut("built")

\* one turn of the for loop: the group is cut from the level, its
\* addresses are concatenated and deployed as a page with nonce
\* baseNonce + ni. The deployment succeeds or fails for good (buildTree
\* throws); with a nonce that is no number the library either rejects the
\* transaction or fills in the wallet's next nonce
BuildNode ==
    /\ built.phase = "for"
    /\ lessThan(built.i, Num(Len(built.level)))
    /\ Len(built.parent) <= MaxChunks
    /\ LET g == built.GROUP_SIZE
           group == slice(built.level, toInt(built.i),
                          toInt(plus(built.i, g)))
           concat == Concat([n \in 1..Len(group) |-> getBytes(group[n])])
           ni == floorDiv(built.i, g)
           nonce == plus(Num(built.baseNonce), ni)
           address == PageAddress(IF nonce.nan THEN built.mined
                                  ELSE nonce.n)
       IN  \/ built' = [built EXCEPT
                           !.parent = Append(@, address),
                           !.store = (address :> concat) @@ @,
                           !.mined = @ + 1,
                           !.i = nextGroup(built.i, g)]
           \/ built' = [built EXCEPT !.phase = "thrown"]
    /\ unchangedBut("built")

\* the for loop is left: level = parent
BuildLevelEnd ==
    /\ built.phase = "for"
    /\ ~lessThan(built.i, Num(Len(built.level)))
    /\ built' = [built EXCEPT !.phase = "while", !.level = built.parent]
    /\ unchangedBut("built")

\* return { rootChunk: level[0], depth }
BuildReturn ==
    /\ built.phase = "while" /\ Len(built.level) <= 1
    /\ built' = [built EXCEPT
                    !.phase = "returned",
                    !.rootChunk = IF built.level = << >> THEN NoAddress
                                  ELSE built.level[1]]
    /\ unchangedBut("built")

NextBuild ==
    BuildTreeCall \/ BuildLevelStart \/ BuildNode \/ BuildLevelEnd
        \/ BuildReturn

SpecBuild == InitBuild /\ [][NextBuild]_vars

(***************************************************************************)
(* The publisher: withRetry                                                *)
(***************************************************************************)
RETRY_MAX == 3

\* milliseconds
RETRY_DELAY == 2000

\* the JSON-RPC error code isRetryable accepts
BUSY_CODE == 0 - 32022

\* String.prototype.toLowerCase, one character at a time
toLowerCase(msg) ==
    [n \in 1..Len(msg) |->
        CASE msg[n] = "A" -> "a" [] msg[n] = "E" -> "e"
          [] msg[n] = "I" -> "i" [] msg[n] = "M" -> "m"
          [] msg[n] = "O" -> "o" [] msg[n] = "R" -> "r"
          [] msg[n] = "T" -> "t" [] msg[n] = "U" -> "u"
          [] OTHER -> msg[n]]

\* String.prototype.includes
includes(msg, part) ==
    \E at \in 0..(Len(msg) - Len(part)) :
        SubSeq(msg, at + 1, at + Len(part)) = part

\* the errors the deployment step throws: a message (empty when the error
\* has none) and a code (0 when the error has none)
StepErrors ==
    {[message |-> <<"R", "a", "t", "e", " ", "l", "i", "m", "i", "t">>,
      code |-> 0],
     [message |-> <<"H", "T", "T", "P", " ", "4", "2", "9">>, code |-> 0],
     [message |-> <<"T", "I", "M", "E", "O", "U", "T">>, code |-> 0],
     [message |-> <<"n", "o", "n", "c", "e", " ", "l", "o", "w">>,
      code |-> 0],
     [message |-> <<"b", "u", "s", "y">>, code |-> BUSY_CODE],
     [message |-> <<"r", "e", "v", "e", "r", "t">>, code |-> 0],
     [message |-> <<"n", "o", "n", "e">>, code |-> 3],
     [message |-> << >>, code |-> 0]}

isRetryable(e) ==
    LET msg == toLowerCase(e.message) IN
    \/ includes(msg, <<"r", "a", "t", "e">>)
    \/ includes(msg, <<"4", "2", "9">>)
    \/ includes(msg, <<"t", "i", "m", "e", "o", "u", "t">>)
    \/ includes(msg, <<"n", "o", "n", "c", "e">>)
    \/ e.code = BUSY_CODE

\* mutant: every error is retried while attempts remain
retries_anyError(e, attempt) == attempt < RETRY_MAX

\* if (isRetryable(e) && i < RETRY_MAX)
retries(e, attempt) == isRetryable(e) /\ attempt < RETRY_MAX

\* a call of withRetry(fn, label): the loop variable (named i in the
\* source), the runs of fn so far, the errors they threw, the pauses made
WithRetry ==
    [phase |-> "try", attempt |-> 1, calls |-> 0, errors |-> << >>,
     slept |-> << >>, result |-> 0]

InitStep ==
    /\ kFail = 0
    /\ InitLoader({Tree0}, {1}, Configured, Resolved, NoRead)
    /\ USE_MULTICALL
    /\ vmode = "none" /\ vfn = "generic"
    /\ step = WithRetry
    /\ IdleBut("step")

\* one turn of the loop: fn runs; its result is returned, or its error is
\* caught and either retried after a pause or thrown again
StepAttempt ==
    /\ step.phase = "try" /\ step.attempt <= RETRY_MAX
    /\ \/ step' = [step EXCEPT !.phase = "returned", !.calls = @ + 1,
                               !.result = step.calls + 1]
       \/ \E e \in StepErrors :
             step' = [step EXCEPT
                         !.calls = @ + 1,
                         !.errors = Append(@, e),
                         !.phase = IF retries(e, step.attempt)
                                   THEN "sleep" ELSE "thrown",
                         !.slept = IF retries(e, step.attempt)
                                   THEN Append(@, RETRY_DELAY * step.attempt)
                                   ELSE @]
    /\ unchangedBut("step")

\* the pause is over: i++
StepSleepDone ==
    /\ step.phase = "sleep"
    /\ step' = [step EXCEPT !.phase = "try", !.attempt = @ + 1]
    /\ unchangedBut("step")

NextStep == StepAttempt \/ StepSleepDone

SpecStep == InitStep /\ [][NextStep]_vars

(***************************************************************************)
(* A single-address read alone                                             *)
(***************************************************************************)
InitRead ==
    /\ kFail = 0
    /\ \E kind \in {"generic", "extension"}, n \in 1..MaxAttempts :
           InitLoadFor({Tree0}, Configured, Resolved, ReadCall(kind, n))
    /\ BATCH_SIZE = 1 /\ USE_MULTICALL
    /\ vmode = "none" /\ vfn = "generic"

\* one attempt: the read returns the payload, or fails; the failure of the
\* last attempt is thrown, any other is followed by the backoff
ReadAttempt ==
    /\ reader.status = "running"
    /\ \E ok \in BOOLEAN :
          LET outcome == fetchChunkData(reader.i, reader.retries, ok) IN
          reader' = [reader EXCEPT
                        !.attempts = @ + 1,
                        !.failures = IF ok THEN @ ELSE @ + 1,
                        !.status = CASE outcome = "return" -> "returned"
                                     [] outcome = "throw" -> "thrown"
                                     [] OTHER -> "backoff"]
    /\ UNCHANGED <<varsLoad, wire, settings, resolver, varsTools>>

\* the backoff timer fires and the loop goes to its next attempt
BackoffElapsed ==
    /\ reader.status = "backoff"
    /\ reader' = [reader EXCEPT
                     !.waits = Append(@, backoff(reader.kind, reader.i)),
                     !.i = @ + 1,
                     !.status = "running"]
    /\ UNCHANGED <<varsLoad, wire, settings, resolver, varsTools>>

NextRead == ReadAttempt \/ BackoffElapsed

SpecRead == InitRead /\ [][NextRead]_vars

(***************************************************************************)
(* init's configuration alone                                              *)
(***************************************************************************)
Params == {NotGiven} \cup {Given(t) : t \in ParamTexts}

InitConfig ==
    /\ kFail = 0
    /\ \E b \in Params, c \in Params :
           InitLoadWith({Tree0}, PageWith(b, c))
    /\ BATCH_SIZE = 1 /\ USE_MULTICALL
    /\ vmode = "none" /\ vfn = "generic"

ScriptLoad ==
    /\ settings.phase = "page"
    /\ settings' = scriptLoad(settings)
    /\ UNCHANGED <<varsLoad, wire, resolver, reader, varsTools>>

LoadConfig ==
    /\ settings.phase = "script"
    /\ \E answer \in ApiAnswers : settings' = loadConfig(settings, answer)
    /\ UNCHANGED <<varsLoad, wire, resolver, reader, varsTools>>

NextConfig == ScriptLoad \/ LoadConfig

SpecConfig == InitConfig /\ [][NextConfig]_vars

(***************************************************************************)
(* The generic loader with the batch size init ends up with                *)
(***************************************************************************)
\* the settings after the script's declarations and init's /api/config
ConfiguredBatchSizes ==
    {loadConfig(scriptLoad(PageWith(b, NotGiven)), a) :
        b \in Params,
        a \in {x \in ApiAnswers : x.chunkSize = 0 /\ x.answer # "notok"}}

InitBatch ==
    /\ kFail = 0
    /\ \E conf \in ConfiguredBatchSizes :
           InitLoader({Tree1}, {conf.BATCH_SIZE}, conf, Resolved, NoRead)
    /\ ToolsIdle
    /\ vmode = "none" /\ vfn = "generic"

\* (the loop index is kept within MaxLoops groups below 0)
NextBatch == Next /\ i' >= 0 - MaxLoops * 5

SpecBatch == InitBatch /\ [][NextBatch]_vars


(***************************************************************************)
(* The generic loader from the return of loadChunksInBatches on, with a    *)
(* reader that, in the retry rounds, fails the fetch of a leaf (every      *)
(* attempt of one fetchChunkData call) kFail times and answers every later *)
(* fetch of that leaf                                                      *)
(***************************************************************************)
\* whether a read of the leaf is answered
injectedOutcome(remaining) == remaining = 0

\* one read attempt of a retry round under the injector; the throw of the
\* fetch uses up one of the leaf's failures
InjectedRetryFetch ==
    /\ pc = "retry_fetch"
    /\ LET leaf == toRetry[k]
           ok == injectedOutcome(budget[leaf.index])
       IN  /\ RetryFetchWith(ok)
           /\ Answered(leaf.address)
           /\ budget' = IF fetchChunkData(att, ScanRetries, ok) = "throw"
                        THEN [budget EXCEPT ![leaf.index] = @ - 1]
                        ELSE budget

\* the leaf list collectLeafAddresses returns for a tree
discovered(t) ==
    [n \in 1..Len(t.leafIds) |-> leafEntry(n - 1, Addr(t.leafIds[n]))]

\* the branch node addresses of a tree
branchAddrs(t) == DOMAIN t.store \ {Addr(t.leafIds[n]) : n \in DOMAIN t.leafIds}

\* the load at the return of loadChunksInBatches, aggregation off: the
\* leaves at the positions in F failed their individual reads, the others
\* are in chunks in the order of the groups
InitInject ==
    /\ kFail \in 0..MaxRetryRounds
    /\ tree \in Trees
    /\ BATCH_SIZE \in 1..MaxBatch
    /\ USE_MULTICALL = FALSE
    /\ pc = "phase3"
    /\ leaves = discovered(tree)
    /\ scan = [todo |-> << >>, leaves |-> leaves,
               currentIndex |-> Len(leaves), i |-> 0, thrown |-> FALSE]
    /\ \E F \in SUBSET (0..(Len(leaves) - 1)) :
          /\ failed = SelectSeq(leaves, LAMBDA l : l.index \in F)
          /\ chunks = LET got == SelectSeq(leaves, LAMBDA l : l.index \notin F)
                      IN  [n \in 1..Len(got) |->
                              [index |-> got[n].index,
                               data |-> tree.store[got[n].address]]]
          /\ indivFailed = F
    /\ okReads = branchAddrs(tree)
                     \cup {leaves[n].address :
                             n \in {m \in DOMAIN leaves :
                                       leaves[m].index \notin indivFailed}}
    /\ i = 0 /\ batch = << >> /\ j = 0 /\ k = 1 /\ att = 0
    /\ results = << >>
    /\ retryRound = 0 /\ toRetry = << >> /\ stillFailed = << >>
    /\ finalData = NoData /\ rendered = FALSE
    /\ response = << >> /\ readOrder = << >> /\ aggCalls = 0
    /\ exhausted = {} /\ retried = {}
    /\ leafFetches = TRUE
    /\ scanRuns = 1 /\ unreadable = FALSE
    /\ visits = {<<1, a>> : a \in branchAddrs(tree)}
    /\ scanB = ScanStart(tree.rootChunk, tree.depth)
    /\ fails = <<0, 0>>
    /\ chunkDataMap = << >> /\ directChunks = << >>
    /\ stream = StreamStart /\ sourceBuffer = SourceBufferStart
    /\ mediaSource = MediaSourceStart
    /\ wire = {}
    /\ settings = Configured /\ resolver = Resolved
    /\ reader = NoRead /\ ToolsIdle
    /\ fetchA = FetchStart /\ fetchB = FetchStart
    /\ roundThrown = {}
    /\ tried = [n \in 0..(Len(tree.leafIds) - 1) |-> 0]
    /\ budget = [n \in 0..(Len(tree.leafIds) - 1) |-> kFail]
    /\ vmode = "none" /\ vfn = "generic"

NextInject ==
    \/ IssueRequest
    \/ Phase3 \/ RetryRoundBegin \/ InjectedRetryFetch \/ RetryEnd
    \/ Assemble \/ Render

SpecInject == InitInject /\ [][NextInject]_vars

\* the steps of retryFailedChunks, from its call to its return
RetryStep == IssueRequest \/ Phase3 \/ RetryRoundBegin \/ InjectedRetryFetch \/ RetryEnd

\* retryFailedChunks is one async function: it runs on once the request or
\* timer it awaits completes
FairInject == SpecInject /\ WF_vars(RetryStep)

(***************************************************************************)
(* Two discovery runs over the same tree                                   *)
(*                                                                         *)
(* Two collectLeafAddresses calls on the same (rootChunk, depth), stepping *)
(* in any interleaving, each with its own transient read failures.         *)
(***************************************************************************)
unchangedLoad == UNCHANGED <<tree, BATCH_SIZE, USE_MULTICALL, pc, leaves, i,
                              batch, j, k, att, results, chunks, failed,
                              retryRound, toRetry, stillFailed, finalData,
                              rendered, response, readOrder, aggCalls,
                              exhausted, indivFailed, retried, leafFetches,
                              okReads, scanRuns, visits, unreadable, vmode,
                              vfn, chunkDataMap, directChunks, fetchA,
                              fetchB, roundThrown, tried, kFail, budget,
                              stream, sourceBuffer, mediaSource, wire,
                              settings, resolver, reader,
                   varsTools>>

StepOutcomes(s) ==
    IF Head(s.todo).nodeDepth = 0 THEN {TRUE}
    ELSE ReadOutcomes(tree.store, Head(s.todo).address)

RunA ==
    /\ ScanRunning(scan)
    /\ \E ok \in StepOutcomes(scan) :
          /\ scan' = traverseNode(scan, tree.store, ok)
          /\ fails' = [fails EXCEPT ![1] = IF ok THEN @ ELSE @ + 1]
    /\ UNCHANGED scanB
    /\ unchangedLoad

RunB ==
    /\ ScanRunning(scanB)
    /\ \E ok \in StepOutcomes(scanB) :
          /\ scanB' = traverseNode(scanB, tree.store, ok)
          /\ fails' = [fails EXCEPT ![2] = IF ok THEN @ ELSE @ + 1]
    /\ UNCHANGED scan
    /\ unchangedLoad

InitRuns == Init /\ BATCH_SIZE = 1 /\ USE_MULTICALL

NextRuns == RunA \/ RunB

SpecRuns == InitRuns /\ [][NextRuns]_vars

(***************************************************************************)
(* Batched and individual fetching of the same leaf list                   *)
(*                                                                         *)
(* After discovery returned, loadChunksInBatches runs twice over the leaf  *)
(* list, once with aggregation and once without, the reader never erring.  *)
(***************************************************************************)
unchangedButPair ==
    UNCHANGED <<tree, BATCH_SIZE, USE_MULTICALL, pc, scan, leaves, i, batch,
                j, k, att, results, chunks, failed, retryRound, toRetry,
                stillFailed, finalData, rendered, response, readOrder,
                aggCalls, exhausted, indivFailed, retried, leafFetches,
                okReads, scanRuns, visits, unreadable, scanB, fails, vmode,
                vfn, chunkDataMap, directChunks, roundThrown, tried,
                kFail, budget, stream, sourceBuffer, mediaSource, wire,
                settings, resolver, reader,
                   varsTools>>

PairA ==
    /\ pc = "batch" /\ fetchA.pc # "returned"
    /\ fetchA' = cleanFetchStep(fetchA, TRUE, leaves, BATCH_SIZE, tree.store)
    /\ UNCHANGED fetchB
    /\ unchangedButPair

PairB ==
    /\ pc = "batch" /\ fetchB.pc # "returned"
    /\ fetchB' = cleanFetchStep(fetchB, FALSE, leaves, BATCH_SIZE, tree.store)
    /\ UNCHANGED fetchA
    /\ unchangedButPair

NextPair == IssueRequest \/ ScanLeaf \/ ScanRead \/ ScanDone \/ PairA \/ PairB

SpecPair == Init /\ [][NextPair]_vars

(***************************************************************************)
(* The video loader (video-loader.js): init tries streamVideoWithSegments  *)
(* when MediaSource supports a type and falls back to fallbackLoad when    *)
(* that throws; both run their own collectLeafAddresses and batch loop     *)
(* (the same fetchChunksBatch code as loader.js), without retry rounds.    *)
(***************************************************************************)
\* Map.prototype.set / array element assignment
mapSet(m, key, value) == (key :> value) @@ m

\* the forEach of the video loader over the results of the group at offset
\* off: a success is stored under chunkIndex = off + idx, a failure is logged
RECURSIVE videoForEach(_, _, _, _)
videoForEach(res, off, idx, m) ==
    IF idx > Len(res) THEN m
    ELSE videoForEach(res, off, idx + 1,
                      IF res[idx].success
                      THEN mapSet(m, off + idx - 1, res[idx].data)
                      ELSE m)

\* fallbackLoad: chunks.filter(c => c != null), copied at the running offset
assembleValid(m, n) ==
    LET present == SelectSeq([x \in 1..n |-> x - 1], LAMBDA c : c \in DOMAIN m)
    IN  Concat([x \in 1..Len(present) |-> m[present[x]]])

\* init's catch of a streaming error (video-loader.js:832): fallbackLoad
\* starts and calls collectLeafAddresses again
startFallback ==
    /\ vfn' = "direct"
    /\ scan' = ScanStart(tree.rootChunk, tree.depth)
    /\ scanRuns' = scanRuns + 1
    /\ pc' = "scan"

unchangedVideoButWire == UNCHANGED <<tree, BATCH_SIZE, USE_MULTICALL, scanB,
                                     fails, vmode, fetchA, fetchB, kFail,
                                     budget, settings, resolver, reader,
                   varsTools>>
unchangedVideoSetup == unchangedVideoButWire /\ UNCHANGED wire

\* traverseNode at depth > 0 in the video loader: the third failed attempt
\* throws out of collectLeafAddresses; inside streamVideoWithSegments that is
\* caught by init and answered with fallbackLoad, inside fallbackLoad it
\* reaches init's outer catch
VScanRead ==
    /\ pc = "scan" /\ ScanRunning(scan)
    /\ Head(scan.todo).nodeDepth > 0
    /\ visits' = visits \cup {<<scanRuns, Head(scan.todo).address>>}
    /\ \E ok \in ReadOutcomes(tree.store, Head(scan.todo).address) :
          LET s == traverseNode(scan, tree.store, ok) IN
          /\ okReads' = IF ok THEN okReads \cup {Head(scan.todo).address}
                        ELSE okReads
          /\ unreadable' = (unreadable \/ (~ok /\ scan.i >= 2))
          /\ IF s.thrown /\ vfn = "stream"
             THEN startFallback
             ELSE /\ scan' = s
                  /\ pc' = IF s.thrown THEN "error" ELSE "scan"
                  /\ UNCHANGED <<vfn, scanRuns>>
    /\ Answered(Head(scan.todo).address)
    /\ UNCHANGED <<leaves, finalData, rendered, chunkDataMap, directChunks>>
    /\ unchangedStream
    /\ unchangedFetch /\ unchangedRetry /\ unchangedVideoButWire

\* collectLeafAddresses returns: streaming goes on to setupMediaSource,
\* fallbackLoad allocates its chunks array and enters the batch loop
VScanDone ==
    /\ pc = "scan" /\ ~scan.thrown /\ scan.todo = << >>
    /\ leaves' = scan.leaves
    /\ i' = 0
    /\ pc' = IF vfn = "stream" THEN "media" ELSE "batch"
    /\ directChunks' = << >>
    /\ UNCHANGED <<scan, batch, j, k, att, results, chunks, failed, finalData,
                   rendered, response, readOrder, aggCalls, exhausted,
                   indivFailed, leafFetches, okReads, scanRuns, visits,
                   unreadable, vfn, chunkDataMap>>
    /\ unchangedStream
    /\ unchangedRetry /\ unchangedVideoSetup

\* setupMediaSource resolves on sourceopen, or rejects (addSourceBuffer
\* throws, MediaSource error), which init answers with fallbackLoad
VSetupMediaSource ==
    /\ pc = "media"
    /\ \/ /\ pc' = "batch"
          /\ mediaSource' = [readyState |-> "open"]
          /\ UNCHANGED <<scan, scanRuns, vfn>>
       \/ startFallback /\ UNCHANGED mediaSource
    /\ UNCHANGED <<leaves, finalData, rendered, okReads, visits, unreadable,
                   chunkDataMap, directChunks, stream, sourceBuffer>>
    /\ unchangedFetch /\ unchangedRetry /\ unchangedVideoSetup

\* the results of the group are stored by chunk index.  Direct playback
\* goes on to the pacing pause; streaming parses the header if it has not
\* been parsed yet and enters the segment loop
parseOnce(st, map) ==
    IF st.segmentsParsed THEN st
    ELSE LET p == parseHeaderFromChunks(map) IN
         [st EXCEPT !.headerLength = IF p.read THEN p.headerLength ELSE @,
                    !.segmentsParsed = p.ok /\ p.array,
                    !.adjustedSegments =
                        IF p.ok /\ p.array
                        THEN adjustSegmentOffsets(p.segments, p.headerLength)
                        ELSE @]

\* adjustSegmentOffsets calls .map on the parsed header: a TypeError when
\* the header parsed to a value that is not a list
parseThrows(st, map) ==
    /\ ~st.segmentsParsed
    /\ parseHeaderFromChunks(map).ok
    /\ ~parseHeaderFromChunks(map).array

\* mutant: the pacing pause stands after the group's try/catch
onGroupCatch_thenPause(from, size, n) ==
    IF from + size < n THEN [pc |-> "pause", i |-> from]
    ELSE [pc |-> "batch", i |-> from + size]

\* the catch around the body of one group logs 'Batch n failed' and the
\* for loop goes on with the next group; the pause inside the try is
\* skipped
onGroupCatch(from, size, n) == [pc |-> "batch", i |-> from + size]

VProcessResults ==
    /\ pc = "results"
    /\ IF vfn = "stream"
       THEN /\ chunkDataMap' = videoForEach(results, i, 1, chunkDataMap)
            /\ stream' = parseOnce(stream, chunkDataMap')
            /\ IF parseThrows(stream, chunkDataMap')
               THEN /\ pc' = onGroupCatch(i, BATCH_SIZE, Len(leaves)).pc
                    /\ i' = onGroupCatch(i, BATCH_SIZE, Len(leaves)).i
               ELSE pc' = "segments" /\ i' = i
            /\ UNCHANGED directChunks
       ELSE /\ directChunks' = videoForEach(results, i, 1, directChunks)
            /\ IF i + BATCH_SIZE < Len(leaves)
               THEN pc' = "pause" /\ i' = i
               ELSE pc' = "batch" /\ i' = i + BATCH_SIZE
            /\ UNCHANGED <<chunkDataMap, stream>>
    /\ UNCHANGED <<scan, leaves, batch, j, k, att, results, chunks, failed,
                   finalData, rendered, response, readOrder, aggCalls,
                   exhausted, indivFailed, leafFetches, okReads, scanRuns,
                   visits, unreadable, vfn, sourceBuffer, mediaSource>>
    /\ unchangedRetry /\ unchangedVideoSetup

\* the condition of both segment loops (inside the batch loop and after
\* it): there is a next segment and all its chunks are in chunkDataMap
canAppendNext ==
    /\ stream.nextSegmentToAppend < Len(stream.adjustedSegments)
    /\ isSegmentComplete(
           stream.adjustedSegments[stream.nextSegmentToAppend + 1],
           chunkDataMap)

\* the batch loop of streamVideoWithSegments has ended
batchLoopOver == vfn = "stream" /\ pc = "batch" /\ i >= Len(leaves)

unchangedByAppend ==
    /\ UNCHANGED <<scan, leaves, i, batch, j, k, att, results, chunks,
                   failed, finalData, rendered, response, readOrder,
                   aggCalls, exhausted, indivFailed, leafFetches, okReads,
                   scanRuns, visits, unreadable, vfn, chunkDataMap,
                   directChunks, mediaSource>>
    /\ unchangedRetry /\ unchangedVideoSetup

\* the segment loop finds the next segment complete, extracts it and calls
\* appendSegment
VSegmentNext ==
    /\ pc = "segments" \/ batchLoopOver
    /\ canAppendNext
    /\ stream' = [stream EXCEPT
                     !.handed = Append(@, stream.nextSegmentToAppend)]
    /\ pc' = "append"
    /\ UNCHANGED <<sourceBuffer, mediaSource>>
    /\ unchangedByAppend

\* the segment loop inside the batch loop ends (no further segment is
\* complete); the pacing pause follows unless this was the last group
VSegmentsExit ==
    /\ pc = "segments" /\ i < Len(leaves)
    /\ ~canAppendNext
    /\ IF i + BATCH_SIZE < Len(leaves)
       THEN pc' = "pause" /\ i' = i
       ELSE pc' = "batch" /\ i' = i + BATCH_SIZE
    /\ UNCHANGED <<scan, leaves, batch, j, k, att, results, chunks, failed,
                   finalData, rendered, response, readOrder, aggCalls,
                   exhausted, indivFailed, leafFetches, okReads, scanRuns,
                   visits, unreadable, vfn, chunkDataMap, directChunks,
                   stream, sourceBuffer, mediaSource>>
    /\ unchangedRetry /\ unchangedVideoSetup

\* mutant: appendSegment resolves as soon as appendBuffer has returned
onAppendAccepted_noAwait(next) == [pc |-> "segments", next |-> next + 1]

\* appendSegment after appendBuffer returned: the promise stays pending
\* until the buffer's updateend
onAppendAccepted(next) == [pc |-> "appending", next |-> next]

\* appendSegment with the buffer not updating (while it is updating the
\* call polls every 50 ms): appendBuffer takes the data and the buffer is
\* updating, or appendBuffer throws, which is logged and the loop goes on
VAppendCall ==
    /\ pc = "append" /\ ~sourceBuffer.updating
    /\ LET n == stream.nextSegmentToAppend
           segData == extractSegmentData(stream.adjustedSegments[n + 1],
                                         chunkDataMap, stream.headerLength)
       IN  \/ /\ sourceBuffer' =
                    [updating |-> TRUE,
                     appended |-> Append(sourceBuffer.appended,
                                         [segment |-> n, data |-> segData])]
              /\ pc' = onAppendAccepted(n).pc
              /\ stream' = [stream EXCEPT !.nextSegmentToAppend =
                                              onAppendAccepted(n).next]
           \/ /\ UNCHANGED sourceBuffer
              /\ pc' = "segments"
              /\ stream' = [stream EXCEPT !.nextSegmentToAppend = n + 1]
    /\ unchangedByAppend

\* the buffer finishes the append: updateend resolves the pending
\* appendSegment and the loop moves to the next segment
VUpdateEnd ==
    /\ sourceBuffer.updating
    /\ sourceBuffer' = [sourceBuffer EXCEPT !.updating = FALSE]
    /\ IF pc = "appending"
       THEN /\ pc' = "segments"
            /\ stream' = [stream EXCEPT !.nextSegmentToAppend = @ + 1]
       ELSE UNCHANGED <<pc, stream>>
    /\ unchangedByAppend

\* the end of streamVideoWithSegments: if the MediaSource is open,
\* mediaSource.endOfStream() is called
endOfStream(ms) ==
    IF ms.readyState = "open" THEN [ms EXCEPT !.readyState = "ended"] ELSE ms

\* the load function ends: streaming (after its last segment loop) ends the
\* stream and starts playback; fallbackLoad assembles the chunks it has and
\* plays the blob
VLoadEnd ==
    /\ \/ vfn = "direct" /\ pc = "batch" /\ i >= Len(leaves)
       \/ /\ batchLoopOver \/ (pc = "segments" /\ i >= Len(leaves))
          /\ vfn = "stream" /\ ~canAppendNext
    /\ finalData' = IF vfn = "direct"
                    THEN assembleValid(directChunks, Len(leaves))
                    ELSE finalData
    /\ mediaSource' = IF vfn = "stream" THEN endOfStream(mediaSource)
                      ELSE mediaSource
    /\ rendered' = TRUE
    /\ pc' = "done"
    /\ i' = 0 /\ batch' = << >> /\ j' = 0 /\ k' = 1 /\ att' = 0
    /\ results' = << >>
    /\ response' = << >> /\ readOrder' = << >> /\ aggCalls' = 0
    /\ exhausted' = {} /\ indivFailed' = {}
    /\ UNCHANGED <<scan, leaves, chunks, failed, leafFetches, okReads,
                   scanRuns, visits, unreadable, vfn, chunkDataMap,
                   directChunks, stream, sourceBuffer>>
    /\ unchangedRetry /\ unchangedVideoSetup

InitVideo ==
    /\ kFail = 0
    /\ InitLoadOf(VideoTrees)
    /\ vmode \in {"raw", "mse", "nomse"}
    /\ vfn = IF vmode = "mse" THEN "stream" ELSE "direct"

NextVideo ==
    \/ IssueRequest
    \/ ScanLeaf \/ VScanRead \/ VScanDone \/ VSetupMediaSource
    \/ BatchBegin \/ Aggregate3 \/ IndividualRead \/ VProcessResults
    \/ VSegmentNext \/ VSegmentsExit \/ VAppendCall \/ VUpdateEnd
    \/ BatchPause \/ VLoadEnd

SpecVideo == InitVideo /\ [][NextVideo]_vars

(***************************************************************************)
(* Segment extraction over drawn media: the final segment loop of          *)
(* streamVideoWithSegments with every chunk fetched                        *)
(***************************************************************************)
\* byte ranges within the media data
Ranges == {r \in (0..MaxData) \X (0..MaxData) : r[1] <= r[2]}

\* the header bytes listing the segments, and the media they head
headerOf(segs) ==
    Concat([n \in 1..Len(segs) |-> <<segs[n][1], segs[n][2]>>])

mediaOf(segs) ==
    <<0, 0, 0, Len(headerOf(segs))>> \o headerOf(segs)
        \o [n \in 1..MaxData |-> 20 + n]

\* streamVideoWithSegments after its batch loop, every chunk fetched and
\* the header parsed
InitExtract ==
    /\ kFail = 0
    /\ \E q \in 1..MaxSegs : \E segs \in [1..q -> Ranges] :
           tree = MediaTree(mediaOf(segs))
    /\ BATCH_SIZE = 1
    /\ USE_MULTICALL = TRUE
    /\ vmode = "mse" /\ vfn = "stream"
    /\ leaves = discovered(tree)
    /\ scan = [todo |-> << >>, leaves |-> leaves,
               currentIndex |-> Len(leaves), i |-> 0, thrown |-> FALSE]
    /\ pc = "batch" /\ i = Len(leaves)
    /\ chunkDataMap = [c \in 0..(Len(leaves) - 1) |->
                          tree.store[leaves[c + 1].address]]
    /\ stream = parseOnce(StreamStart, chunkDataMap)
    /\ sourceBuffer = SourceBufferStart
    /\ mediaSource = [readyState |-> "open"]
    /\ wire = {}
    /\ settings = Configured /\ resolver = Resolved
    /\ reader = NoRead /\ ToolsIdle
    /\ okReads = DOMAIN tree.store
    /\ batch = << >> /\ j = 0 /\ k = 1 /\ att = 0
    /\ results = << >> /\ chunks = << >> /\ failed = << >>
    /\ retryRound = 0 /\ toRetry = << >> /\ stillFailed = << >>
    /\ finalData = NoData /\ rendered = FALSE
    /\ response = << >> /\ readOrder = << >> /\ aggCalls = 0
    /\ exhausted = {} /\ indivFailed = {} /\ retried = {}
    /\ leafFetches = TRUE
    /\ scanRuns = 1 /\ unreadable = FALSE
    /\ visits = {<<1, a>> : a \in branchAddrs(tree)}
    /\ scanB = ScanStart(tree.rootChunk, tree.depth)
    /\ fails = <<0, 0>>
    /\ directChunks = << >>
    /\ fetchA = FetchStart /\ fetchB = FetchStart
    /\ roundThrown = {}
    /\ tried = [n \in 0..(Len(tree.leafIds) - 1) |-> 0]
    /\ budget = [n \in 0..(Len(tree.leafIds) - 1) |-> kFail]

NextExtract == VSegmentNext \/ VAppendCall \/ VUpdateEnd \/ VLoadEnd

SpecExtract == InitExtract /\ [][NextExtract]_vars

(***************************************************************************)
(* Properties of the generic loader                                        *)
(***************************************************************************)
CountChunks(index) ==
    Cardinality({n \in DOMAIN chunks : chunks[n].index = index})

CountFailed(leaf) == Cardinality({n \in DOMAIN failed : failed[n] = leaf})

PayloadInChunks(leaf) ==
    \E n \in DOMAIN chunks :
        /\ chunks[n].index = leaf.index
        /\ chunks[n].data = tree.store[leaf.address]

DiscoveryReturned == ~scan.thrown /\ scan.todo = << >>

AllReadsSucceeded == DOMAIN tree.store \subseteq okReads

\* C1: round trip.  When every node of the tree is read successfully by one
\* of the attempts the load makes, the load does not fail, and the bytes it
\* returns are exactly the published content, in order (depths 0, 1, 2, 3).
Thm_C1_RoundTrip ==
    /\ (pc \in {"rendering", "done"} /\ AllReadsSucceeded)
          => finalData = tree.content
    /\ AllReadsSucceeded => pc # "error"

\* the 5-leaf depth-2 tree is loaded back although a leaf was obtained only
\* in the second retry round
Wit_C1_RoundTrip ==
    /\ pc = "done" /\ tree = Tree2 /\ AllReadsSucceeded
    /\ retryRound >= 2
    /\ finalData = Content5 /\ Len(finalData) = 13

\* C2: the leaf at list position n carries index n (0-based), at every point
\* of discovery, and the returned list is the tree's leaves from left to
\* right.
Thm_C2_LeafOrder ==
    /\ \A n \in DOMAIN scan.leaves : scan.leaves[n].index = n - 1
    /\ DiscoveryReturned =>
          [n \in DOMAIN scan.leaves |-> scan.leaves[n].address]
              = [n \in DOMAIN tree.leafIds |-> Addr(tree.leafIds[n])]

Wit_C2_LeafOrder ==
    /\ DiscoveryReturned /\ tree = Tree2 /\ Len(scan.leaves) = 5
    /\ scan.leaves[5] = [index |-> 4, address |-> Addr(5)]

\* C4: once a branch node has failed all three attempts of its read, the
\* load is in the error state: no leaf list was returned, no leaf payload
\* was or is requested, nothing is assembled or rendered.
Thm_C4_DiscoveryAborts ==
    unreadable =>
        /\ pc = "error"
        /\ leaves = << >>
        /\ ~leafFetches
        /\ chunks = << >> /\ finalData = NoData /\ ~rendered

\* node B of the depth-2 tree is unreadable after the leaves under node A
\* were already collected
Wit_C4_DiscoveryAborts ==
    /\ unreadable /\ pc = "error" /\ tree = Tree2
    /\ Len(scan.leaves) = 3

\* C6: when loadChunksInBatches returns, every discovered leaf is either in
\* chunks (once, with its payload) or in failed (once), never both, never
\* neither, and nothing else is in either list.
Thm_C6_Partition ==
    pc = "phase3" =>
        /\ \A n \in DOMAIN leaves :
              /\ CountChunks(leaves[n].index) + CountFailed(leaves[n]) = 1
              /\ CountChunks(leaves[n].index) = 1 => PayloadInChunks(leaves[n])
        /\ Len(chunks) + Len(failed) = Len(leaves)

Wit_C6_Partition ==
    /\ pc = "phase3" /\ tree = Tree2
    /\ Len(failed) = 2 /\ Len(chunks) = 3

\* C7: when aggregation is disabled or the aggregate call of the group failed
\* every attempt, the addresses of the group are read one by one in group
\* order, and the result list has one entry per address at its position,
\* whether or not some of the reads failed.
Thm_C7_IndividualFallback ==
    LET addrs == [n \in DOMAIN batch |-> batch[n].address]
        trigger == ~USE_MULTICALL \/ i \in exhausted
    IN  /\ pc = "individual" =>
              /\ trigger
              /\ readOrder = SubSeq(addrs, 1, IF att = 0 THEN k - 1 ELSE k)
              /\ Len(results) = k - 1
        /\ (pc = "results" /\ trigger) =>
              /\ readOrder = addrs
              /\ response = << >>
              /\ Len(results) = Len(batch)
              /\ \A n \in DOMAIN batch :
                    IF batch[n].index \in indivFailed
                    THEN ~results[n].success
                    ELSE results[n] = Success(tree.store[batch[n].address])

\* the first read of a group failed for good and the second one was still
\* made and succeeded
Wit_C7_IndividualFallback ==
    /\ pc = "results" /\ USE_MULTICALL /\ i \in exhausted
    /\ Len(batch) = 2
    /\ ~results[1].success /\ results[2].success

Orig_C9_BothInFailed ==
    (pc = "phase3" /\ Len(leaves) = 5 /\ BATCH_SIZE = 2 /\ 2 \in exhausted)
        => (CountFailed(leaves[3]) = 1 /\ CountFailed(leaves[4]) = 1)

\* C9: batch size 2, 5 leaves, the aggregate call for leaves [2,3] failed
\* every attempt: each of the two is read individually; the one whose
\* individual read failed too is in the failed list and not in chunks, the
\* one whose individual read succeeded is in chunks with its payload and not
\* in the failed list; and every leaf of the failed list has been fetched by
\* the retry coordinator when it returns.
Thm_C9_FallbackThenRetry ==
    /\ (pc = "phase3" /\ Len(leaves) = 5 /\ BATCH_SIZE = 2
          /\ 2 \in exhausted) =>
          \A n \in {3, 4} :
              IF leaves[n].index \in indivFailed
              THEN CountFailed(leaves[n]) = 1
                   /\ CountChunks(leaves[n].index) = 0
              ELSE CountFailed(leaves[n]) = 0 /\ PayloadInChunks(leaves[n])
    /\ (pc = "assemble" /\ Len(leaves) = 5 /\ BATCH_SIZE = 2) =>
          \A n \in DOMAIN failed : failed[n].index \in retried

Wit_C9_FallbackThenRetry ==
    /\ pc = "phase3" /\ Len(leaves) = 5 /\ BATCH_SIZE = 2
    /\ 2 \in exhausted
    /\ 2 \in indivFailed /\ 3 \notin indivFailed

\* the slot of the n-th call carries the page's bytes
GoodSlot(n) == response[n] = Slot(tree.store, batch[n].address, "ok")

\* C10: in a returned aggregate response a slot that is flagged failed, empty
\* or undecodable gives a Failure for its own leaf and no other; every other
\* slot gives its leaf's payload; no further aggregate call and no individual
\* read is made for the group; after the group is recorded the leaf of a bad
\* slot is in failed, the leaf of a good slot in chunks.
Thm_C10_SlotFailure ==
    /\ (pc = "results" /\ response # << >>) =>
          /\ Len(results) = Len(batch)
          /\ readOrder = << >> /\ aggCalls = j + 1
          /\ \A n \in DOMAIN batch :
                IF GoodSlot(n)
                THEN results[n] = Success(tree.store[batch[n].address])
                ELSE ~results[n].success
    /\ (pc \in {"pause", "batch"} /\ response # << >>) =>
          /\ readOrder = << >> /\ aggCalls = j + 1
          /\ \A n \in DOMAIN batch :
                IF GoodSlot(n)
                THEN CountFailed(batch[n]) = 0 /\ PayloadInChunks(batch[n])
                ELSE CountFailed(batch[n]) = 1
                     /\ CountChunks(batch[n].index) = 0

\* an undecodable first slot next to a good second slot, recorded
Wit_C10_SlotFailure ==
    /\ pc = "pause" /\ Len(response) = 2
    /\ response[1] = [success |-> TRUE, returnData |-> <<32, 64>>]
    /\ GoodSlot(2)
    /\ CountFailed(batch[1]) = 1 /\ PayloadInChunks(batch[2])


(***************************************************************************)
(* Properties of discovery across runs and loader variants                 *)
(***************************************************************************)
Returned(s) == ~s.thrown /\ s.todo = << >>

\* C3: two discovery runs over the same tree that both return yield the same
\* list of (index, address) pairs, whatever the interleaving of their steps
\* and whichever of their read attempts failed.
Thm_C3_Determinism ==
    (Returned(scan) /\ Returned(scanB)) => scan.leaves = scanB.leaves

\* one run saw no failure, the other at least three failed attempts
Wit_C3_Determinism ==
    /\ Returned(scan) /\ Returned(scanB) /\ tree = Tree2
    /\ fails[1] = 0 /\ fails[2] >= 3
    /\ Len(scanB.leaves) = 5

\* C5: a branch node is read by at most one discovery pass of a load, and a
\* load in which a branch node was unreadable has run discovery only once.
Claim_C5_NoSecondDiscovery ==
    /\ \A v \in visits, w \in visits : v[2] = w[2] => v[1] = w[1]
    /\ unreadable => scanRuns = 1


(***************************************************************************)
(* Properties of the fetch paths, the retry rounds and assembly            *)
(***************************************************************************)
\* the results a run of loadChunksInBatches holds for leaf index n
ChunksOf(f, n) == SelectSeq(f.chunks, LAMBDA c : c.index = n)

\* C11: with a reader that never errors, the run with aggregation and the
\* run without it hold the same result list for the same group, and when
\* both have returned they hold the same chunks (for every leaf index one
\* entry, with the same payload) and an empty failed list.
Thm_C11_BatchFallbackEquivalent ==
    /\ (fetchA.pc = "results" /\ fetchB.pc = "results"
          /\ fetchA.i = fetchB.i) => fetchA.results = fetchB.results
    /\ (fetchA.pc = "returned" /\ fetchB.pc = "returned") =>
          /\ fetchA.failed = << >> /\ fetchB.failed = << >>
          /\ \A n \in DOMAIN leaves :
                /\ Len(ChunksOf(fetchA, leaves[n].index)) = 1
                /\ ChunksOf(fetchA, leaves[n].index)
                      = ChunksOf(fetchB, leaves[n].index)
          /\ fetchA.chunks = fetchB.chunks

\* both runs returned for the 5-leaf tree with groups of 2
Wit_C11_BatchFallbackEquivalent ==
    /\ fetchA.pc = "returned" /\ fetchB.pc = "returned"
    /\ tree = Tree2 /\ BATCH_SIZE = 2
    /\ Len(fetchA.chunks) = 5 /\ fetchB.chunks[5].data = <<13>>


\* the leaf indices of a list of leaf descriptors
Indices(list) == {list[n].index : n \in DOMAIN list}

\* C12: the round counter never exceeds 5; a round starts only with a
\* non-empty queue and the coordinator returns only with an empty queue or
\* after round 5; when a round ends, the new queue holds exactly the leaves
\* whose fetch threw in that round, all of them from the round's queue, in
\* the same number or fewer; and the queue a round starts with (or the
\* coordinator returns with) holds no leaf that is in chunks.
Thm_C12_RetryRounds ==
    /\ [](/\ retryRound \in 0..5
          /\ pc = "retry_fetch" => (toRetry # << >> /\ retryRound >= 1)
          /\ (pc = "assemble" /\ toRetry # << >>) => retryRound = 5
          /\ pc \in {"retry_loop", "assemble"} =>
                \A n \in DOMAIN toRetry : CountChunks(toRetry[n].index) = 0)
    /\ [][/\ retryRound' # retryRound =>
                (retryRound' = retryRound + 1 /\ toRetry # << >>)
          /\ (pc = "retry_fetch" /\ pc' = "retry_loop") =>
                /\ Indices(toRetry') = roundThrown'
                /\ Indices(toRetry') \subseteq Indices(toRetry)
                /\ Len(toRetry') <= Len(toRetry)
                /\ Len(toRetry') = Cardinality(roundThrown')]_vars

\* a second round ended with one leaf fewer in the queue than it started
\* with
Wit_C12_RetryRounds ==
    /\ pc = "retry_loop" /\ retryRound = 2 /\ tree = Tree2
    /\ Len(toRetry) = 1 /\ roundThrown = {3}
    /\ CountChunks(4) = 1 /\ 4 \in retried

\* C14: a leaf that is in no chunk when the retry coordinator has returned
\* was fetched in exactly 5 retry rounds and is in the final queue (the
\* permanent failures); no leaf that keeps failing is fetched in more than 5
\* rounds, and a leaf still queued has been fetched in every round so far.
Thm_C14_AlwaysFailingLeaf ==
    /\ \A n \in DOMAIN tried : tried[n] <= 5
    /\ pc = "retry_loop" =>
          \A n \in DOMAIN toRetry : tried[toRetry[n].index] = retryRound
    /\ pc \in {"assemble", "rendering", "done"} =>
          \A n \in DOMAIN leaves :
              CountChunks(leaves[n].index) = 0 =>
                  /\ tried[leaves[n].index] = 5
                  /\ retryRound = 5
                  /\ leaves[n].index \in Indices(toRetry)

\* leaf 3 of the 5-leaf tree failed every fetch
Wit_C14_AlwaysFailingLeaf ==
    /\ pc = "assemble" /\ tree = Tree2
    /\ CountChunks(3) = 0 /\ tried[3] = 5 /\ retryRound = 5
    /\ Indices(toRetry) = {3}


\* every discovered leaf has a chunk
AllLeavesInChunks == \A n \in DOMAIN leaves : CountChunks(leaves[n].index) = 1

RetryEntered == pc = "retry_loop" /\ retryRound = 0

RetryConverged ==
    pc = "assemble" /\ toRetry = << >> /\ AllLeavesInChunks

\* C13 as stated: for every k <= 5, when the fetch of each initially failed
\* leaf fails k further times and succeeds afterwards, the coordinator
\* returns with every leaf in chunks and an empty queue.
Orig_C13_ConvergesUpTo5 ==
    (RetryEntered /\ kFail <= 5) ~> RetryConverged

\* C13: for every k <= 4, when the fetch of each initially failed leaf fails
\* in k further retry rounds and succeeds afterwards, the coordinator returns
\* with every leaf in chunks and an empty queue, after k + 1 rounds; with
\* k = 5 it returns after round 5 with the failed leaves still queued.
Thm_C13_ConvergesBelow5 ==
    /\ (RetryEntered /\ kFail <= 4) ~> RetryConverged
    /\ [](pc = "assemble" /\ retryRound > 0 =>
            IF kFail <= 4
            THEN toRetry = << >> /\ AllLeavesInChunks
                 /\ retryRound = kFail + 1
            ELSE Indices(toRetry) = Indices(failed) /\ retryRound = 5)

\* two leaves failed in the batch phase and in rounds 1..4 and were obtained
\* in round 5
Wit_C13_ConvergesBelow5 ==
    /\ pc = "assemble" /\ kFail = 4 /\ retryRound = 5 /\ tree = Tree2
    /\ Len(failed) = 2 /\ toRetry = << >> /\ AllLeavesInChunks


\* C15: whenever some discovered leaf has no chunk, the load is not in and
\* past rendering (no content is written without every leaf).
Claim_C15_NoPartialRender ==
    ~AllLeavesInChunks => (pc \notin {"rendering", "done"} /\ ~rendered)

\* C16: when assembly is over, a byte buffer was produced if and only if
\* every leaf index in [0, totalLeaves) has a chunk.
Claim_C16_AssembleIffComplete ==
    pc \in {"rendering", "done"} =>
        (finalData # NoData <=> AllLeavesInChunks)

\* the payloads of the leaves that have a chunk, in ascending leaf index
PayloadsAscending ==
    LET got == SelectSeq(leaves, LAMBDA l : CountChunks(l.index) > 0)
    IN  [n \in 1..Len(got) |-> tree.store[got[n].address]]

RECURSIVE SumLen(_)
SumLen(seqs) == IF seqs = << >> THEN 0 ELSE Len(Head(seqs)) + SumLen(Tail(seqs))

\* C17: the assembled buffer is the concatenation of the payloads of the
\* leaves that have a chunk, in ascending leaf index, whether a chunk came
\* from the batch phase or from a retry round; its length is the sum of the
\* payload lengths, whatever total size the registry declares.
Thm_C17_AscendingConcat ==
    pc \in {"rendering", "done"} =>
        /\ finalData = Concat(PayloadsAscending)
        /\ Len(finalData) = SumLen(PayloadsAscending)
        /\ Len(finalData) = SumLen([n \in DOMAIN chunks |-> chunks[n].data])

\* leaf 0 was obtained in a retry round, after leaves 1 and 2; the declared
\* size is 4, the buffer has all 5 bytes
Wit_C17_AscendingConcat ==
    /\ pc = "done" /\ tree = Tree1 /\ tree.totalSize = 4
    /\ 0 \in retried /\ 1 \notin retried /\ 2 \notin retried
    /\ finalData = <<1, 2, 3, 4, 5>>

\* the leaf indices the video loader holds a payload for
VideoLoaded == IF vfn = "stream" THEN DOMAIN chunkDataMap
               ELSE DOMAIN directChunks

\* C18: in the video loader too, a leaf that is without payload when the
\* load has ended was fetched in all five retry rounds.
Claim_C18_EveryVariantRetries ==
    pc = "done" =>
        \A n \in 0..(Len(leaves) - 1) : n \notin VideoLoaded => tried[n] = 5

(***************************************************************************)
(* Streaming: hand-over of segments to the media buffer                    *)
(***************************************************************************)
\* the segments the header of the published media lists (none when the
\* content carries no readable header)
headerSegments(t) ==
    LET n == Len(t.leafIds)
        all == [c \in 0..(n - 1) |-> t.store[Addr(t.leafIds[c + 1])]]
        p == parseHeaderFromChunks(all)
    IN  IF p.ok /\ p.array THEN p.segments ELSE << >>

\* an appendSegment call is between its entry and its resolution
HandOverInProgress == pc \in {"append", "appending"}

\* C20: segment k+1 is handed to appendSegment only after the hand-over of
\* segment k has completed: the buffer is updating only while the loop
\* awaits that one append, a new hand-over always finds the buffer idle,
\* and the hand-overs made exceed the hand-overs completed by one exactly
\* while one is in progress
Thm_C20_SynchronousAck ==
    /\ pc = "append" => ~sourceBuffer.updating
    /\ sourceBuffer.updating => pc = "appending"
    /\ Len(stream.handed) - stream.nextSegmentToAppend =
           IF HandOverInProgress THEN 1 ELSE 0
    /\ Len(sourceBuffer.appended) <= Len(stream.handed)

\* the second segment is being appended, after the first was acknowledged
Wit_C20_SynchronousAck ==
    /\ pc = "appending" /\ sourceBuffer.updating
    /\ stream.nextSegmentToAppend = 1
    /\ Len(sourceBuffer.appended) = 2

\* segments are handed over in ascending index, none twice, and each only
\* with all its covering chunks in chunkDataMap
HandedInOrderWhenComplete ==
    /\ \A n \in 1..Len(stream.handed) : stream.handed[n] = n - 1
    /\ pc = "append" =>
           isSegmentComplete(
               stream.adjustedSegments[stream.nextSegmentToAppend + 1],
               chunkDataMap)

\* a load has handed over segments in order although a chunk is missing
Wit_HandedInOrderWhenComplete ==
    /\ pc = "append" /\ stream.nextSegmentToAppend = 1
    /\ \E c \in 0..(Len(leaves) - 1) : c \notin DOMAIN chunkDataMap

\* C19: segments are handed to appendSegment in ascending index, each only
\* when every chunk covering its byte range has arrived, and when streaming
\* completes every segment of the header has been handed over exactly once
Claim_C19_SegmentOrdering ==
    /\ HandedInOrderWhenComplete
    /\ (pc = "done" /\ vfn = "stream") =>
           stream.handed =
               [n \in 1..Len(headerSegments(tree)) |-> n - 1]

(***************************************************************************)
(* Streaming: end of stream                                                *)
(***************************************************************************)
\* C21: end-of-stream is signalled only when drained: the segment cursor
\* equals the number of segments of the header and every segment of the
\* header has been released
Claim_C21_EndOfStreamWhenDrained ==
    mediaSource.readyState = "ended" =>
        /\ stream.nextSegmentToAppend = Len(headerSegments(tree))
        /\ Len(stream.handed) = Len(headerSegments(tree))

(***************************************************************************)
(* Streaming: a header that cannot be parsed                               *)
(***************************************************************************)
\* the published media has a malformed header or a declared header length
\* beyond its content
HeaderUnparsable == tree \in {TreeMalformed, TreeOversized}

\* every chunk of the media was fetched by the load function that ran
AllChunksArrived ==
    \A c \in 0..(Len(leaves) - 1) :
        c \in DOMAIN (IF vfn = "stream" THEN chunkDataMap ELSE directChunks)

\* C22: when the header cannot be parsed, no segment is released and the
\* load ends in whole-buffer playback of the assembled bytes, not finished
\* with nothing delivered
Claim_C22_HeaderFailureFallsBack ==
    (HeaderUnparsable /\ vmode = "mse" /\ pc = "done" /\ AllChunksArrived) =>
        /\ stream.handed = << >>
        /\ vfn = "direct"
        /\ finalData = tree.content

\* the part that holds: with an unparsable header no segment is released
NoSegmentOfUnparsableHeader == HeaderUnparsable => stream.handed = << >>

(***************************************************************************)
(* Streaming: the bytes of a segment                                       *)
(***************************************************************************)
\* the header length the published content declares
declaredHeaderLength(t) == getUint32(SubSeq(t.content, 1, 4))

\* the bytes of the assembled content at the absolute range of segment n
\* (0-based) of the header
contentOfSegment(t, n) ==
    LET seg == headerSegments(t)[n + 1]
        H == declaredHeaderLength(t)
    IN  slice(t.content, seg.byteStart + 4 + H, seg.byteEnd + 4 + H)

\* every leaf except the last holds exactly CHUNK_SIZE bytes
FullChunks ==
    \A c \in 0..(Len(leaves) - 2) :
        Len(tree.store[leaves[c + 1].address]) = CHUNK_SIZE

\* C23: the bytes handed to the buffer for a segment are the bytes of the
\* assembled content at [byteStart + 4 + H, byteEnd + 4 + H)
Thm_C23_SegmentBytes ==
    FullChunks =>
        \A n \in 1..Len(sourceBuffer.appended) :
            sourceBuffer.appended[n].data =
                contentOfSegment(tree, sourceBuffer.appended[n].segment)

\* a segment that starts and ends inside chunks and spans two of them has
\* been appended
Wit_C23_SegmentBytes ==
    /\ FullChunks
    /\ \E n \in 1..Len(sourceBuffer.appended) :
          LET seg == stream.adjustedSegments[
                         sourceBuffer.appended[n].segment + 1]
          IN  /\ seg.adjustedByteStart % CHUNK_SIZE # 0
              /\ seg.adjustedByteEnd % CHUNK_SIZE # 0
              /\ seg.adjustedChunkEnd - seg.adjustedChunkStart >= 2
              /\ Len(sourceBuffer.appended[n].data) >= 2

(***************************************************************************)
(* One remote request at a time                                            *)
(***************************************************************************)
\* the leaf addresses below a node, in document order
RECURSIVE leavesUnder(_, _, _)
leavesUnder(store, address, depth) ==
    IF depth = 0 THEN <<address>>
    ELSE IF address \notin DOMAIN store THEN << >>
    ELSE LET kids == childAddrs(store[address]) IN
         Concat([n \in 1..Len(kids) |->
                    leavesUnder(store, kids[n], depth - 1)])

\* the leaves emitted so far, followed by the leaves below the pending
\* nodes in their order, are the leaves of the tree in document order: a
\* node is pending only while every subtree before it is fully discovered
SiblingsInTurn ==
    (pc = "scan" /\ ~scan.thrown) =>
        [n \in 1..Len(scan.leaves) |-> scan.leaves[n].address]
            \o Concat([n \in 1..Len(scan.todo) |->
                          leavesUnder(tree.store, scan.todo[n].address,
                                      scan.todo[n].nodeDepth)])
        = leavesUnder(tree.store, tree.rootChunk, tree.depth)

\* while a group is being fetched, the results of every earlier group are
\* recorded in chunks or failed
EarlierGroupsRecorded ==
    pc \in {"multicall", "individual"} =>
        \A n \in 1..i : CountChunks(leaves[n].index)
                            + CountFailed(leaves[n]) >= 1

\* C24: at most one remote request is outstanding at any moment, and it is
\* the request of the load's current position: the read of the first
\* pending node of discovery (every earlier sibling's subtree being fully
\* discovered), the aggregate call or single read of the current group
\* (every earlier group being recorded), or the read of a retry round
Thm_C24_OneRequestAtATime ==
    /\ Cardinality(wire) <= 1
    /\ wire \subseteq requestsAt
    /\ wire # {} /\ pc = "scan" => wire = {Head(scan.todo).address}
    /\ SiblingsInTurn
    /\ EarlierGroupsRecorded

\* the aggregate call of the second group is outstanding, and before it
\* the read of a second branch node was
Wit_C24_OneRequestAtATime ==
    /\ wire = {MULTICALL3_ADDRESS}
    /\ i >= 1
    /\ Cardinality({v \in visits : v[1] = 1}) >= 2

(***************************************************************************)
(* Configuration priority                                                  *)
(***************************************************************************)
\* the parameter is not given, or given as a number other than 0
Usable(param) ==
    ~param.given \/ (~parseInt(param.text).nan /\ parseInt(param.text).n # 0)

\* URL parameter, else the /api/config value, else the fallback
byPriority(param, apiValue, fallback) ==
    IF param.given THEN parseInt(param.text).n
    ELSE IF settings.api.answer = "ok" /\ apiValue # 0 THEN apiValue
    ELSE fallback

\* the batch size follows the priority order
BatchSizeByPriority ==
    settings.phase = "configured" /\ Usable(settings.batchSize) =>
        settings.BATCH_SIZE = byPriority(settings.batchSize,
                                         settings.api.batchSize,
                                         FallbackBatchSize)

\* a URL batch size was given, /api/config answered another, and the URL's
\* was taken
Wit_BatchSizeByPriority ==
    /\ settings.phase = "configured"
    /\ settings.batchSize = Given("7") /\ settings.api.batchSize = 50
    /\ settings.BATCH_SIZE = 7

\* C25: batchSize and chunkSize each take the URL parameter's value when
\* given, else the /api/config value when the endpoint answers, else the
\* hardcoded fallback
Claim_C25_ConfigPriority ==
    settings.phase = "configured" /\ Usable(settings.batchSize)
                                  /\ Usable(settings.chunkSize) =>
        /\ settings.BATCH_SIZE = byPriority(settings.batchSize,
                                            settings.api.batchSize,
                                            FallbackBatchSize)
        /\ settings.CHUNK_SIZE = byPriority(settings.chunkSize,
                                            settings.api.chunkSize,
                                            FallbackChunkSize)

(***************************************************************************)
(* Name resolution: API first, on-chain fallback                           *)
(***************************************************************************)
\* the call has come to its end
ResolveSettled == resolver.phase \in {"returned", "thrown"}

\* a resolution under the shipped configuration (API and contract set) of
\* a well-formed name
ShippedConfig ==
    /\ resolver.fn \in {"resolve", "resolveMega"}
    /\ resolver.apiConfigured /\ resolver.contractConfigured
    /\ resolver.nameValid

\* C26 as stated: the on-chain call is made exactly when the API attempt
\* threw, timed out or answered not ok, and an ok response is returned
\* from the API without any on-chain call
Orig_C26_OnchainIffApiDown ==
    ShippedConfig /\ ResolveSettled =>
        /\ resolver.ethCalls >= 1 <=>
               resolver.api \in {"throw", "timeout", "notok"}
        /\ resolver.api \in {"ok_badbody", "ok_noresult", "ok_result"} =>
               resolver.source = "api" /\ resolver.ethCalls = 0

\* C26: the on-chain call is made exactly when the API attempt did not
\* produce a result: it threw, timed out, answered not ok, or answered ok
\* with a body that cannot be read or holds no usable result; a result of
\* the API is returned without any on-chain call
Thm_C26_OnchainIffNoApiResult ==
    ShippedConfig /\ ResolveSettled =>
        /\ resolver.ethCalls >= 1 <=>
               resolver.api \in {"throw", "timeout", "notok", "ok_badbody",
                                 "ok_noresult"}
        /\ resolver.api = "ok_result" =>
               resolver.source = "api" /\ resolver.ethCalls = 0
        /\ resolver.source = "api" => resolver.api = "ok_result"

\* the API timed out and the record came from the chain
Wit_C26_OnchainIffNoApiResult ==
    /\ ShippedConfig /\ ResolveSettled
    /\ resolver.api = "timeout"
    /\ resolver.source = "onchain" /\ resolver.ethCalls >= 1

(***************************************************************************)
(* Pacing pause between groups                                             *)
(***************************************************************************)
\* a step of the batch loop on to a further group
ToFurtherGroup == pc' = "batch" /\ i' > i /\ i' < Len(leaves)

\* C27: the batch loop goes on to a further group only out of its pacing
\* pause, whatever happened while the earlier group was processed, and
\* pauses only when a further group follows
Claim_C27_PauseBetweenGroups ==
    [][/\ ToFurtherGroup => pc = "pause"
       /\ pc' = "pause" => i + BATCH_SIZE < Len(leaves)]_vars

(***************************************************************************)
(* Single-address read: attempts and backoff                               *)
(***************************************************************************)
ReadUnderStudy == reader.kind \in {"generic", "extension"}

\* C28: a single-address read with budget n makes at most n attempts,
\* returns on its first success without a further attempt, throws only
\* after n failures in a row, and waits its backoff (200 ms doubling,
\* capped at 2 s, in the loader) between attempts only: one wait per
\* failure that is followed by another attempt, none after the last
Thm_C28_AttemptsAndBackoff ==
    ReadUnderStudy =>
        /\ reader.attempts <= reader.retries
        /\ reader.status = "returned" =>
               reader.attempts = reader.failures + 1
        /\ reader.status = "thrown" =>
               /\ reader.failures = reader.retries
               /\ reader.attempts = reader.retries
               /\ Len(reader.waits) = reader.retries - 1
        /\ Len(reader.waits) <= reader.retries - 1
        /\ Len(reader.waits) =
               reader.failures
                   - (IF reader.status \in {"backoff", "thrown"} THEN 1 ELSE 0)
        /\ reader.kind = "generic" =>
               \A x \in 1..Len(reader.waits) :
                   reader.waits[x] =
                       (IF x >= 5 THEN 2000
                        ELSE IF x = 4 THEN 1600
                        ELSE IF x = 3 THEN 800
                        ELSE IF x = 2 THEN 400 ELSE 200)

\* a read of the loader with a budget of six has thrown after waits that
\* reached the cap; (the discovery budget of three appears as well)
Wit_C28_AttemptsAndBackoff ==
    /\ reader.kind = "generic" /\ reader.status = "thrown"
    /\ reader.retries = 6
    /\ reader.waits = <<200, 400, 800, 1600, 2000>>

(***************************************************************************)
(* Discovery: children of a branch payload, termination                    *)
(***************************************************************************)
\* this step is the successful read of the branch node at the head of todo
ReadSucceeds ==
    /\ pc = "scan" /\ ScanRunning(scan)
    /\ Head(scan.todo).nodeDepth > 0
    /\ scan' # scan /\ ~scan'.thrown /\ scan'.i = 0

\* the calls traverseNode queued for the children of that node
derivedChildren ==
    SubSeq(scan'.todo, 1, Len(scan'.todo) - Len(scan.todo) + 1)

\* C29: a branch payload of length L yields exactly L/20 children, child k
\* being bytes [20k, 20k+20) of the payload, each a full 20-byte address,
\* each traversed one level below its parent
Claim_C29_ChildrenOfPayload ==
    [][ReadSucceeds =>
          LET node == Head(scan.todo)
              data == tree.store[node.address]
              kids == derivedChildren
          IN  /\ Len(kids) * ADDR_LEN = Len(data)
              /\ \A n \in 1..Len(kids) :
                    /\ kids[n].address =
                           toHex(slice(data, (n - 1) * ADDR_LEN,
                                       n * ADDR_LEN))
                    /\ Len(kids[n].address) = 2 * ADDR_LEN
                    /\ kids[n].nodeDepth = node.nodeDepth - 1]_vars

\* the nodes at depth > 0 of the tree below a node
RECURSIVE branchesUnder(_, _, _)
branchesUnder(store, address, depth) ==
    IF depth = 0 THEN {}
    ELSE {address} \cup
         (IF address \notin DOMAIN store THEN {}
          ELSE LET kids == childAddrs(store[address]) IN
               UNION {branchesUnder(store, kids[n], depth - 1) :
                         n \in 1..Len(kids)})

emittedAddrs == [n \in 1..Len(scan.leaves) |-> scan.leaves[n].address]

\* no request for a depth-0 node; the leaves emitted so far are the first
\* leaves d levels below the root; a discovery that has returned has read
\* every branch node and emitted every leaf
ScanReadsAndLeaves ==
    /\ pc = "scan" /\ wire # {} =>
           /\ Head(scan.todo).nodeDepth > 0
           /\ wire = {Head(scan.todo).address}
    /\ {v[2] : v \in visits} \subseteq
           branchesUnder(tree.store, tree.rootChunk, tree.depth)
    /\ LET all == leavesUnder(tree.store, tree.rootChunk, tree.depth) IN
       /\ Len(emittedAddrs) <= Len(all)
       /\ emittedAddrs = SubSeq(all, 1, Len(emittedAddrs))
       /\ pc = "batch" =>
              /\ [n \in 1..Len(leaves) |-> leaves[n].address] = all
              /\ okReads = branchesUnder(tree.store, tree.rootChunk,
                                         tree.depth)

\* C30 as stated: when discovery has ended, every node at depth > 0 has been
\* read successfully
Orig_C30_EveryBranchRead ==
    pc # "scan" =>
        okReads = branchesUnder(tree.store, tree.rootChunk, tree.depth)

\* C30 (amended): discovery on a finite tree of declared depth d ends once
\* its reads are answered; no node is read successfully twice, no depth-0
\* node is requested, every emitted leaf lies d levels below the root, and
\* a discovery that returns has read every node at depth > 0 (exactly once)
Thm_C30_DiscoveryTerminates ==
    /\ <>(pc # "scan")
    /\ []ScanReadsAndLeaves
    /\ [][ReadSucceeds => Head(scan.todo).address \notin okReads]_vars

\* the depth-3 tree discovered to its end: five branch nodes read, three
\* leaves emitted
Wit_C30_DiscoveryTerminates ==
    /\ pc = "batch" /\ tree = Tree3
    /\ Cardinality(okReads) = 5 /\ Len(leaves) = 3

(***************************************************************************)
(* One entry per leaf index in the success collection                      *)
(***************************************************************************)
\* C31: during the batch and retry phases (and up to assembly) chunks holds
\* at most one entry per leaf index, whatever number of slots an aggregate
\* response has; no payload is concatenated twice
Claim_C31_OneEntryPerLeaf ==
    \A n \in DOMAIN leaves : CountChunks(leaves[n].index) <= 1

(***************************************************************************)
(* The batch loop under every batch size                                   *)
(***************************************************************************)
InGroup == pc \in {"multicall", "individual", "results", "pause"}

\* C32: whatever batch size init ends up with, the batch loop runs over
\* consecutive groups that cover each leaf once, in order: the loop index
\* stays within the leaf list, every group is the next leaves from the
\* index (at least one), and the loop is left with the index at or past
\* the end after ceil(n / batchSize) groups
Claim_C32_GroupsCoverLeaves ==
    /\ pc \in {"batch", "multicall", "individual", "results", "pause"} =>
           i >= 0
    /\ InGroup =>
           /\ i < Len(leaves)
           /\ batch # << >>
           /\ batch = SubSeq(leaves, i + 1, Min(i + BATCH_SIZE, Len(leaves)))
    /\ pc = "batch" /\ BATCH_SIZE > 0 =>
           /\ i % BATCH_SIZE = 0
           /\ i < Len(leaves) + BATCH_SIZE

(***************************************************************************)
(* The extension loader is all-or-nothing                                  *)
(***************************************************************************)
\* the payloads of all leaves of the tree, in leaf order
AllLeafPayloads ==
    LET all == leavesUnder(tree.store, tree.rootChunk, tree.depth) IN
    IF \A n \in 1..Len(all) : all[n] \in DOMAIN tree.store
    THEN Concat([n \in 1..Len(all) |-> tree.store[all[n]]])
    ELSE NoData

\* the third attempt of a read is made in this step
LastAttempt ==
    /\ site.phase \in {"scan", "load"} /\ site' # site
    /\ site.i = ReadChunkRetries - 1

\* the read of this step succeeded: the node's children are queued, or the
\* leaf's payload is pushed
ReadDelivered ==
    \/ /\ site.phase = "scan" /\ site'.phase = "scan" /\ site'.i = 0
       /\ site'.leaves = site.leaves
    \/ /\ site.phase = "load" /\ site'.phase = "load"
       /\ site'.k = site.k + 1
       /\ site'.allData =
              Append(site.allData, tree.store[site.leaves[site.k + 1]])

SiteAllOrNothing ==
    /\ site.data # NoData <=> site.phase \in {"returned", "rendered"}
    /\ site.data # NoData => site.data = AllLeafPayloads
    /\ site.rendered <=> site.phase = "rendered"
    /\ site.phase = "load" =>
           /\ site.k = Len(site.allData)
           /\ site.leaves =
                  leavesUnder(tree.store, tree.rootChunk, tree.depth)

\* C33: loadContent returns data only after discovery and every leaf read
\* succeeded, the data being every leaf's payload in leaf order; a read
\* whose third attempt fails makes the load throw, and a load that threw
\* has returned and rendered nothing
Thm_C33_AllOrNothing ==
    /\ []SiteAllOrNothing
    /\ [][LastAttempt => (site'.phase = "thrown" \/ ReadDelivered)]_vars

\* the 5-leaf depth-2 tree is returned whole, in leaf order
Wit_C33_AllOrNothing ==
    /\ site.phase = "returned" /\ tree = Tree2
    /\ site.data = tree.content

(***************************************************************************)
(* Visit history                                                           *)
(***************************************************************************)
SamePair(e, f) == e.value = f.value /\ e.type = f.type

\* at most the limit of entries, no pair twice
HistoryBoundedDistinct ==
    /\ Len(visitHistory) <= HISTORY_LIMIT
    /\ \A a, b \in 1..Len(visitHistory) :
          SamePair(visitHistory[a], visitHistory[b]) => a = b

\* this step completes the c-th suspended call
Completes(c) ==
    /\ c \in 1..Len(saves.calls)
    /\ saves'.calls = SubSeq(saves.calls, 1, c - 1)
                          \o SubSeq(saves.calls, c + 1, Len(saves.calls))
    /\ visitHistory' = saves.calls[c].updated

\* the entries of list other than the pair of call, in their order, as far
\* as the limit leaves room behind the new entry
RestInOrder(list, call) ==
    LET others == SelectSeq(list, LAMBDA h : ~SamePair(h, call)) IN
    SubSeq(others, 1, IF Len(others) < HISTORY_LIMIT - 1 THEN Len(others)
                      ELSE HISTORY_LIMIT - 1)

Claim_C35_NoVisitLost ==
    [][\A c \in 1..Len(saves.calls) :
          Completes(c) =>
              \A n \in 1..Len(visitHistory) :
                  LET e == visitHistory[n] IN
                  (/\ ~SamePair(e, saves.calls[c])
                   /\ \A r \in 1..Len(saves.calls[c].read) :
                         saves.calls[c].read[r] # e)
                  => \E x \in 1..Len(visitHistory') :
                         visitHistory'[x] = e]_vars

(***************************************************************************)
(* The viewer loads only what resolution allows                            *)
(***************************************************************************)
Loadable(record) ==
    /\ record # NullRecord
    /\ record.isActive = "true"
    /\ record.siteType # "container"

\* C36: loading for a site name starts only after resolution returned a
\* record that is not null, active and not a container; for a missing,
\* deactivated or container record an error is shown, no chunk (and no
\* registry entry) is read and no visit is recorded
Thm_C36_LoadOnlyResolved ==
    /\ (site # Idle \/ viewer.siteDataReads > 0) =>
           /\ viewer.phase # "resolving"
           /\ Loadable(viewer.record)
    /\ (viewer.phase # "resolving" /\ ~Loadable(viewer.record)) =>
           /\ viewer.phase = "error" /\ viewer.error # "none"
           /\ site = Idle /\ viewer.siteDataReads = 0
           /\ ~viewer.visit
    /\ viewer.visit => site.phase = "rendered"

\* resolution returned a deactivated record from the API: the error is
\* shown and nothing was read
Wit_C36_LoadOnlyResolved ==
    /\ viewer.phase = "error" /\ viewer.error = "Site deactivated"
    /\ viewer.record.source = "api" /\ viewer.record.isActive = "undefined"
    /\ site = Idle

(***************************************************************************)
(* deployChunks: order, nonces, batches                                    *)
(***************************************************************************)
\* the nonce the deployment of chunk idx (0-based) of the current batch
\* was started with
NonceOfChunk(idx) == deploy.nonceOf[idx - deploy.bs + 1]

DeployOrderAndNonces ==
    /\ deploy.phase = "running" =>
           \* the nonces of the batch are baseNonce, baseNonce + 1, ...
           /\ \A idx \in deploy.bs..(deploy.be - 1) :
                 NonceOfChunk(idx) = deploy.baseNonce + (idx - deploy.bs)
           /\ \A a, b \in deploy.bs..(deploy.be - 1) :
                 NonceOfChunk(a) = NonceOfChunk(b) => a = b
           /\ deploy.be - deploy.bs <= DEPLOY_BATCH_SIZE
           \* every chunk before the batch has its address
           /\ Len(deploy.addrs) = deploy.bs
    /\ deploy.phase \in {"batch", "returned"} =>
           Len(deploy.addrs) = deploy.bs
    /\ deploy.phase = "returned" => Len(deploy.addrs) = deploy.n

\* C37: deployChunks returns the page addresses in the order of the input
\* chunks whatever order the deployments of a batch complete in; the
\* deployments of a batch have the distinct nonces baseNonce, baseNonce+1,
\* ...; a batch starts only after every deployment of the one before
\* completed
Thm_C37_DeployOrder ==
    /\ []DeployOrderAndNonces
    /\ [][(deploy.phase = "running" /\ deploy'.phase = "batch") =>
             /\ Len(deploy.completed) = deploy.be - deploy.bs
             /\ \A idx \in deploy.bs..(deploy.be - 1) :
                   deploy'.addrs[idx + 1] = PageAddress(NonceOfChunk(idx))
             /\ SubSeq(deploy'.addrs, 1, deploy.bs) = deploy.addrs]_vars

\* three chunks deployed, the second of the first batch having completed
\* before the first
Wit_C37_DeployOrder ==
    /\ deploy.phase = "running" /\ deploy.n = 3 /\ deploy.bs = 0
    /\ deploy.completed = <<1, 0>>

(***************************************************************************)
(* The published tree                                                      *)
(***************************************************************************)
\* what deployImageData returned describes the input: a single chunk is
\* the root at depth 0; two or more addresses hang below one root, each
\* exactly `depth` levels down and in the input order from left to right,
\* and no node has more than GROUP_SIZE children
TreeShape ==
    built.phase = "returned" =>
        /\ Len(built.addresses) = 1 =>
              built.depth = 0 /\ built.rootChunk = built.addresses[1]
        /\ Len(built.addresses) >= 2 =>
              /\ built.rootChunk \in DOMAIN built.store
              /\ leavesUnder(built.store, built.rootChunk, built.depth)
                    = built.addresses
              /\ \A a \in DOMAIN built.store :
                    lessThan(Num(Len(childAddrs(built.store[a]))),
                             plus(built.GROUP_SIZE, Num(1)))

\* the loops of buildTree make progress: a turn of the for loop moves the
\* index forward (or ends the loop), and a finished level is shorter than
\* the level below it
BuildProgress ==
    /\ (built.phase = "for" /\ built'.phase = "for") =>
           built'.i.nan \/ lessThan(built.i, built'.i)
    /\ (built.phase = "for" /\ built'.phase = "while") =>
           Len(built'.level) < Len(built.level)

\* C38: for n >= 2 leaf addresses and any configured group size, buildTree
\* terminates with a single root, every node having at most GROUP_SIZE
\* children, every leaf exactly `depth` levels below the root and the
\* leaves in input order from left to right; a single chunk is published
\* at depth 0 as its own root
Claim_C38_SingleRootInOrder ==
    []TreeShape /\ [][BuildProgress]_vars

(***************************************************************************)
(* Retried deployment steps                                                *)
(***************************************************************************)
\* the errors the publisher's documentation calls retryable: rate limit,
\* 429, timeout, nonce, code -32022
RetryableErrors ==
    {e \in StepErrors :
        \/ e.message \in {<<"R", "a", "t", "e", " ", "l", "i", "m", "i", "t">>,
                          <<"H", "T", "T", "P", " ", "4", "2", "9">>,
                          <<"T", "I", "M", "E", "O", "U", "T">>,
                          <<"n", "o", "n", "c", "e", " ", "l", "o", "w">>}
        \/ e.code = 0 - 32022}

====
